---- MODULE Spec2Model ----
(***************************************************************************)
(* DomiClaw agent turn loop (pkg/agent), its tool registry (pkg/tools) and *)
(* the resume-trigger bookkeeping of the memory store (pkg/memory).        *)
(*                                                                         *)
(* One Loop instance is shared by the goroutines in Callers.  A call of    *)
(* Run / RunContinue is executed step by step: every blocking operation    *)
(* (the streaming model call, a backoff wait, a tool execution) is a       *)
(* separate step, so that Stop, ClearHistory, cancellation and calls from  *)
(* the other goroutine interleave with a call in progress.                 *)
(*                                                                         *)
(* The registry is also driven on its own (SpecRegistry): registrations    *)
(* and Execute calls in any order.  The Anthropic adapter (pkg/providers)  *)
(* decodes one response stream event by event (SpecStream, and             *)
(* SpecStreamRepeat for a server that repeats a content_block_stop),       *)
(* encodes a transcript message by message (SpecEncode) and turns an HTTP  *)
(* status and body into a Response or an error, as the OpenRouter adapter  *)
(* does (SpecHttp).  The heartbeat Service (pkg/heartbeat) is modelled     *)
(* with its Start and Stop and the runLoop goroutines they leave behind    *)
(* (SpecHeartbeat).                                                        *)
(***************************************************************************)
EXTENDS Integers, Sequences, FiniteSets, TLC

VARIABLES
    cfg,            \* config.Config: MaxToolIterations, StrategicCompact.Enabled
    registry,       \* tools.Registry: tools (canonical names), aliases
    running,        \* Loop.running
    stopClosed,     \* Loop.stopChan has been closed
    panicked,       \* the process died of a runtime panic
    cancelled,      \* ctx.Done() is closed
    provider,       \* what the provider can answer: responses, errors
    messages,       \* Loop.messages (interactive history)
    toolDefs,       \* Loop.toolDefs
    loc,            \* per goroutine: position, locals and result of its Run/RunContinue
    runs,           \* calls of Run / RunContinue / resume made so far
    store,          \* memory.Store: resume trigger, resume prompt
    executed,       \* Registry.Execute calls made on the registry directly, with outcome
    wire,           \* parseSSEStream: the SSE events read from the body so far
    callback,       \* parseSSEStream: callback != nil
    result,         \* parseSSEStream: result, the Response being built
    toolCallAccum,  \* parseSSEStream: toolCalls, block index -> id, name, inputJSON
    delivered,      \* the StreamEvents passed to the callback, in order
    returned,       \* parseSSEStream: what it has returned, if it has
    request,        \* Chat / ChatStream: the transcript being encoded and the encoding so far
    exchange,       \* Chat / ChatStream: the HTTP status and body received, and what was returned
    service         \* heartbeat.Service: its fields, its stop channels, its runLoop goroutines

vars == <<cfg, registry, running, stopClosed, panicked, cancelled, provider, messages,
          toolDefs, loc, runs, store, executed,
          wire, callback, result, toolCallAccum, delivered, returned, request, exchange, service>>

\* the state of the Loop other than its registry
loopVars == <<cfg, running, stopClosed, panicked, cancelled, provider, messages,
              toolDefs, loc, runs, store>>

\* the state of one decode of a response stream
streamVars == <<wire, callback, result, toolCallAccum, delivered, returned>>

\* what no step of the Loop touches
\* the state of the adapters' and services' own operations
elsewhere == <<exchange, service>>

outsideLoop == <<executed, streamVars, request, elsewhere>>

-----------------------------------------------------------------------------
(* Bounds of the model *)

MaxToolIterations == 2      \* cfg.Agents.MaxToolIterations used by Spec
MaxRuns == 2                \* calls of Run / RunContinue / resume per behaviour
MaxHistory == 6             \* a further call is made while Loop.messages is at most this long

\* g1 drives the loop; g2 calls into the same Loop while a call of g1 is in
\* progress (calls made one after the other are all g1's)
Callers == {"g1", "g2"}
MayCall(c) == c = "g1" \/ loc["g1"].pc # "idle"
Prompts == {"fix the bug"}

-----------------------------------------------------------------------------
(* strings.ToLower and strings.Contains *)

LowerChar(ch) ==
    CASE ch = "A" -> "a" [] ch = "B" -> "b" [] ch = "C" -> "c" [] ch = "D" -> "d"
      [] ch = "E" -> "e" [] ch = "F" -> "f" [] ch = "G" -> "g" [] ch = "H" -> "h"
      [] ch = "I" -> "i" [] ch = "J" -> "j" [] ch = "K" -> "k" [] ch = "L" -> "l"
      [] ch = "M" -> "m" [] ch = "N" -> "n" [] ch = "O" -> "o" [] ch = "P" -> "p"
      [] ch = "Q" -> "q" [] ch = "R" -> "r" [] ch = "S" -> "s" [] ch = "T" -> "t"
      [] ch = "U" -> "u" [] ch = "V" -> "v" [] ch = "W" -> "w" [] ch = "X" -> "x"
      [] ch = "Y" -> "y" [] ch = "Z" -> "z" [] OTHER -> ch

RECURSIVE ToLowerFrom(_, _)
ToLowerFrom(s, i) ==
    IF i > Len(s) THEN "" ELSE LowerChar(SubSeq(s, i, i)) \o ToLowerFrom(s, i + 1)

ToLower(s) == ToLowerFrom(s, 1)

Contains(s, substr) ==
    \E i \in 1..(Len(s) - Len(substr) + 1) : SubSeq(s, i, i + Len(substr) - 1) = substr

-----------------------------------------------------------------------------
(* Values returned by Run / RunContinue *)

Nil == "nil"
NoRet == "none"
ErrRunAlreadyRunning == "agent loop is already running"
ErrContinueAlreadyRunning == "agent is already running"
ErrCanceled == "context canceled"
ErrOverflow == "context overflow - run 'domiclaw resume' to continue"
LLMCallFailed(e) == "LLM call failed: " \o e

-----------------------------------------------------------------------------
(* Errors the provider's ChatStream can return *)

ErrRateLimit == "anthropic API error: rate_limit_error - Number of requests exceeded"
ErrContextLength == "anthropic API error: invalid_request_error - prompt exceeds maximum context length"
ErrTooManyTokens == "anthropic API error: invalid_request_error - Too many tokens: maximum context length is 200000"
ErrServer == "anthropic API error: api_error - Internal server error"
ErrSendCanceled == "failed to send request: context canceled"

ProviderErrors == {ErrRateLimit, ErrContextLength, ErrTooManyTokens, ErrServer}

\* the retry test of the model-call loop
IsRateLimitError(e) ==
    LET errStr == ToLower(e)
    IN  Contains(errStr, "rate_limit") \/ Contains(errStr, "too many") \/ Contains(errStr, "429")

OverflowPatterns ==
    {"context_length_exceeded", "maximum context length", "token limit", "too many tokens"}

detectContextOverflow(e) ==
    LET errStr == ToLower(e)
    IN  \E pattern \in OverflowPatterns : Contains(errStr, pattern)

\* the two classifications over the errors the model draws from
AllErrors == ProviderErrors \cup {ErrSendCanceled}
RateLimitErrors == {e \in AllErrors : IsRateLimitError(e)}
OverflowErrors == {e \in AllErrors : detectContextOverflow(e)}

MaxAttempts == 3
BackoffBaseSeconds == 5

\* a wait that does not grow
FlatBackoff(attempt) == BackoffBaseSeconds

\* the wait after a failed attempt (attempt counts from 0)
BackoffSeconds(attempt) == BackoffBaseSeconds * (attempt + 1)

maxRepeats == 2

-----------------------------------------------------------------------------
(* Tool registry *)

EmptyRegistry == [tools |-> {}, aliases |-> <<>>]

Register(r, name) == [r EXCEPT !.tools = @ \cup {name}]

\* aliases is kept as a sequence of <<lower-cased alias, canonical>> pairs, the
\* last registration of an alias wins (a Go map assignment)
RegisterAlias(r, alias, canonical) ==
    [r EXCEPT !.aliases =
        SelectSeq(@, LAMBDA p : p[1] # ToLower(alias)) \o <<(<<ToLower(alias), canonical>>)>>]

resolveAlias(r, name) ==
    LET hits == SelectSeq(r.aliases, LAMBDA p : p[1] = ToLower(name))
    IN  IF Len(hits) > 0 THEN hits[1][2] ELSE name

ResolveName(r, name) == resolveAlias(r, name)

\* NewLoop: the tools, then the aliases
NewLoopRegistry ==
    LET r1 == Register(Register(Register(EmptyRegistry, "read_file"), "write_file"), "exec")
        r2 == RegisterAlias(RegisterAlias(r1, "Bash", "exec"), "bash", "exec")
    IN  RegisterAlias(r2, "Read", "read_file")

\* the same registrations with every alias registered before its tool
AliasFirstRegistry ==
    LET r1 == RegisterAlias(RegisterAlias(EmptyRegistry, "Bash", "exec"), "bash", "exec")
        r2 == RegisterAlias(r1, "Read", "read_file")
    IN  Register(Register(Register(r2, "read_file"), "write_file"), "exec")

\* the registries the two registration orders build
RegistryOrders == {NewLoopRegistry, AliasFirstRegistry}

\* what a tool's Execute returns for the arguments the model can send
ToolRun(name, args) ==
    IF name = "exec" /\ "command" \in DOMAIN args /\ args["command"] = "false"
    THEN [ok |-> FALSE, text |-> "command failed: exit status 1"]
    ELSE [ok |-> TRUE, text |-> "output of " \o name]

\* the orders in which a Go map iteration can yield the elements of a set
RECURSIVE Orders(_)
Orders(S) ==
    IF S = {} THEN {<<>>}
    ELSE UNION {{<<x>> \o rest : rest \in Orders(S \ {x})} : x \in S}

\* Registry.List: the registered names, in any of the orders of the map iteration
List(r) == Orders(r.tools)

\* strings.Join
RECURSIVE Join(_, _)
Join(elems, sep) ==
    IF Len(elems) = 0 THEN ""
    ELSE IF Len(elems) = 1 THEN elems[1]
    ELSE elems[1] \o sep \o Join(Tail(elems), sep)

ToolNotFoundError(name, availableTools) ==
    "tool not found: " \o name \o ". Available tools: " \o Join(availableTools, ", ")

\* an Execute that looks the given name up as it is
ExecuteUnresolved(r, name, args, availableTools) ==
    IF name \notin r.tools
    THEN [ok |-> FALSE, text |-> ToolNotFoundError(name, availableTools), tool |-> ""]
    ELSE [ok |-> ToolRun(name, args).ok, text |-> ToolRun(name, args).text, tool |-> name]

\* Registry.Execute: (result, err) and the tool whose Execute ran ("" for none);
\* availableTools is what r.List() returns in this call
Execute(r, name, args, availableTools) ==
    LET resolved == resolveAlias(r, name)
    IN  IF resolved \notin r.tools
        THEN [ok |-> FALSE, text |-> ToolNotFoundError(name, availableTools), tool |-> ""]
        ELSE [ok |-> ToolRun(resolved, args).ok, text |-> ToolRun(resolved, args).text,
              tool |-> resolved]

-----------------------------------------------------------------------------
(* Messages, tool calls and the responses of the model *)

KeyOrder == <<"command", "path">>

RECURSIVE marshalFrom(_, _, _)
marshalFrom(args, i, first) ==
    IF i > Len(KeyOrder) THEN ""
    ELSE IF KeyOrder[i] \in DOMAIN args
         THEN (IF first THEN "" ELSE ",") \o "\"" \o KeyOrder[i] \o "\":\""
              \o args[KeyOrder[i]] \o "\"" \o marshalFrom(args, i + 1, FALSE)
         ELSE marshalFrom(args, i + 1, first)

\* json.Marshal of a map[string]interface{} with string values: keys sorted
marshalArgs(args) == "{" \o marshalFrom(args, 1, TRUE) \o "}"

ToolCall(id, name, args) == [id |-> id, name |-> name, arguments |-> args]

Msg(role, content, calls, callId) ==
    [role |-> role, content |-> content, toolCalls |-> calls, toolCallId |-> callId]

ArgsLs == [command |-> "ls"]
ArgsFalse == [command |-> "false"]
ArgsFile == [path |-> "a.go"]

Response(content, calls) == [content |-> content, toolCalls |-> calls]
NoResponse == Response("", <<>>)

RespFinal == Response("All tests pass.", <<>>)
RespSilent == Response("", <<>>)
RespExec == Response("", <<ToolCall("toolu_1", "exec", ArgsLs)>>)
RespBash == Response("Checkpoint: listing files", <<ToolCall("toolu_1", "Bash", ArgsLs)>>)
RespRead == Response("", <<ToolCall("toolu_1", "read_file", ArgsFile)>>)
RespMulti ==
    Response("", <<ToolCall("toolu_1", "read_file", ArgsFile),
                   ToolCall("toolu_2", "exec", ArgsFalse),
                   ToolCall("toolu_3", "search", ArgsLs)>>)

RespPair ==
    Response("", <<ToolCall("toolu_1", "read_file", ArgsFile),
                   ToolCall("toolu_2", "exec", ArgsFalse)>>)

Responses == {RespFinal, RespSilent, RespExec, RespBash, RespRead, RespPair, RespMulti}

BoundaryPatterns == {"Phase complete", "Moving to", "Task done", "Checkpoint"}

SystemPrompt == "You are DomiClaw, an AI coding assistant."
RepeatHintRun ==
    "You are repeating the same tool call. Please use the results you already have and provide your final answer. Do not make any more tool calls."
RepeatHintContinue ==
    "You are repeating the same tool call. Please use the results you already have and provide your final answer."
GapAnalysisPrompt == "# Session Recovery - Gap Analysis"
DefaultResumePrompt == "Resume previous session. Check MEMORY.md and daily notes for context."

buildInitialMessages(userPrompt) ==
    <<Msg("system", SystemPrompt, <<>>, ""), Msg("user", userPrompt, <<>>, "")>>

buildToolDefinitions(r) == r.tools

-----------------------------------------------------------------------------
(* State of a call and of the memory store *)

NoTrigger == [pending |-> FALSE, reason |-> ""]

\* the call (entry point, prompt argument), the locals of runAgentLoop /
\* runInteractiveLoop, and what the call did so far:
\* iterCalls and waits (model calls and backoff waits of the current iteration,
\* kept until its response is processed), sigs (the first tool call of every
\* finished iteration, as the model sent it), hints (corrective messages injected), notes (daily notes the
\* call appended through the memory store)
IdleLoc ==
    [pc |-> "idle", ret |-> NoRet, entry |-> "none", mode |-> "none", prompt |-> "",
     messages |-> <<>>,
     iteration |-> 0, attempt |-> 0, err |-> "", resp |-> NoResponse, tcIdx |-> 0,
     lastToolSig |-> "", repeatCount |-> 0,
     iterCalls |-> 0, waits |-> <<>>, sigs |-> <<>>, hints |-> 0, notes |-> 0]

\* a start that carries the repeat detection of g1's last call over
StaleLoc(entry, mode, prompt, msgs) ==
    [IdleLoc EXCEPT !.pc = "loop", !.entry = entry, !.mode = mode, !.prompt = prompt,
                    !.messages = msgs,
                    !.lastToolSig = loc["g1"].lastToolSig,
                    !.repeatCount = loc["g1"].repeatCount]

\* the locals of runAgentLoop / runInteractiveLoop at its first iteration
StartLoc(entry, mode, prompt, msgs) ==
    [IdleLoc EXCEPT !.pc = "loop", !.entry = entry, !.mode = mode, !.prompt = prompt,
                    !.messages = msgs]

Active(c) == loc[c].pc # "idle"

\* the transcript a call reads and appends to: the local slice of runAgentLoop,
\* Loop.messages for runInteractiveLoop
Transcript(c) == IF loc[c].mode = "continue" THEN messages ELSE loc[c].messages

\* providers.Usage
Usage(prompt, completion, total) ==
    [PromptTokens |-> prompt, CompletionTokens |-> completion, TotalTokens |-> total]

\* providers.Response as the adapter builds it: &Response{}
ProviderResponse(content, calls, usage) ==
    [content |-> content, toolCalls |-> calls, usage |-> usage]

\* what parseSSEStream has returned: nothing yet, (result, nil) or (nil, err)
NotReturned == [done |-> FALSE, response |-> ProviderResponse("", <<>>, Usage(0, 0, 0)),
                isNil |-> TRUE, err |-> ""]

\* no stream is being decoded
NoStream ==
    /\ wire = <<>>
    /\ callback = FALSE
    /\ result = ProviderResponse("", <<>>, Usage(0, 0, 0))
    /\ toolCallAccum = <<>>
    /\ delivered = <<>>
    /\ returned = NotReturned

\* no transcript is being encoded
NoRequest == [messages |-> <<>>, next |-> 1, systemPrompt |-> "", anthropicMsgs |-> <<>>]

\* a response body: its text and what encoding/json makes of it (valid: it
\* parses into the struct it is decoded into; error: the "error" object, if it
\* has one; content: the blocks of an Anthropic message; choices: the message
\* texts of an OpenAI-style completion)
Body(raw, valid, error, content, choices) ==
    [raw |-> raw, valid |-> valid, error |-> error, content |-> content, choices |-> choices]
NoError == [present |-> FALSE, type |-> "", message |-> ""]
APIError(type, message) == [present |-> TRUE, type |-> type, message |-> message]

BodyRateLimit ==
    Body("{\"type\":\"error\",\"error\":{\"type\":\"rate_limit_error\",\"message\":\"Number of requests exceeded\"}}",
         TRUE, APIError("rate_limit_error", "Number of requests exceeded"), <<>>, <<>>)
BodyOverloaded ==
    Body("{\"type\":\"error\",\"error\":{\"type\":\"overloaded_error\",\"message\":\"Overloaded\"}}",
         TRUE, APIError("overloaded_error", "Overloaded"), <<>>, <<>>)
BodyServerError ==
    Body("{\"error\":{\"message\":\"Internal server error\",\"type\":\"server_error\"}}",
         TRUE, APIError("server_error", "Internal server error"), <<>>, <<>>)
BodyGateway == Body("<html>Bad Gateway</html>", FALSE, NoError, <<>>, <<>>)
BodyEmptyObject == Body("{}", TRUE, NoError, <<>>, <<>>)
BodyMessage ==
    Body("{\"content\":[{\"type\":\"text\",\"text\":\"All tests pass.\"}]}",
         TRUE, NoError,
         <<[type |-> "text", text |-> "All tests pass.", id |-> "", name |-> "", input |-> <<>>]>>,
         <<>>)
BodyCompletion ==
    Body("{\"choices\":[{\"message\":{\"role\":\"assistant\",\"content\":\"All tests pass.\"}}]}",
         TRUE, NoError, <<>>, <<"All tests pass.">>)

Bodies == {BodyRateLimit, BodyOverloaded, BodyServerError, BodyGateway, BodyEmptyObject,
           BodyMessage, BodyCompletion}

\* the text of a json.SyntaxError for a body that starts with '<'
JSONSyntaxError == "invalid character '<' looking for beginning of value"

\* the error of Chat / ChatStream for a status other than 200
AnthropicStatusError(status, body) ==
    IF body.valid
    THEN "anthropic API error: " \o body.error.type \o " - " \o body.error.message
    ELSE "anthropic API error: status " \o ToString(status) \o " - " \o body.raw

\* no exchange has been made; what an exchange ends with: (nil, err) or (result, nil)
NoExchange ==
    [adapter |-> "", status |-> 0, body |-> BodyEmptyObject, done |-> FALSE, streamed |-> FALSE,
     isNil |-> TRUE, response |-> ProviderResponse("", <<>>, Usage(0, 0, 0)), err |-> ""]
Failed(adapter, status, body, err) ==
    [NoExchange EXCEPT !.adapter = adapter, !.status = status, !.body = body, !.done = TRUE,
                       !.err = err]
Answered(adapter, status, body, response) ==
    [NoExchange EXCEPT !.adapter = adapter, !.status = status, !.body = body, !.done = TRUE,
                       !.isNil = FALSE, !.response = response]

MaxStarts == 3

\* the runLoop goroutines: the one of the n-th accepted Start is n, and so is
\* the stop channel that Start made
Loops == 1..MaxStarts

\* NewService: not running, stop channel 0
NewService(enabled) ==
    [enabled |-> enabled, running |-> FALSE, stopChan |-> 0, made |-> 0, closed |-> {},
     ctxDone |-> FALSE, startErr |-> NoRet,
     loops |-> [l \in Loops |-> [pc |-> "none", waitsOn |-> 0]]]

NoService == NewService(FALSE)

Init ==
    /\ cfg = [MaxToolIterations |-> MaxToolIterations, StrategicCompact |-> TRUE]
    /\ registry \in RegistryOrders
    /\ running = FALSE
    /\ stopClosed = FALSE
    /\ panicked = FALSE
    /\ cancelled = FALSE
    /\ provider = [responses |-> {RespFinal, RespSilent, RespBash}, errors |-> ProviderErrors]
    /\ messages = <<>>
    /\ toolDefs = {}
    /\ loc = [c \in Callers |-> IdleLoc]
    /\ runs = 0
    /\ store = [trigger |-> NoTrigger, resumePrompt |-> ""]
    /\ executed = <<>>
    /\ NoStream
    /\ request = NoRequest
    /\ exchange = NoExchange
    /\ service = NoService

-----------------------------------------------------------------------------
(* Entry points of Loop *)

\* a guard that lets every call in
GuardOff == FALSE

\* the guard of Run and RunContinue, read under Loop.mu
AlreadyRunning == running

\* frames of returned calls are dropped when a new call starts
StartFrames(c, frame) ==
    [d \in Callers |-> IF d = c THEN frame ELSE IF Active(d) THEN loc[d] ELSE IdleLoc]

\* a Run that never looks for a session to resume
NeverPending(st) == FALSE

\* Run's test for a session to resume
ResumePending(st) == st.trigger.pending /\ st.resumePrompt # ""

\* Run, after the guard: the pending-resume check and runAgentLoop's setup
RunAccepted(c, entry, initialPrompt, st) ==
    LET prompt == IF ResumePending(st) THEN st.resumePrompt ELSE initialPrompt
    IN  /\ running' = TRUE
        /\ stopClosed' = FALSE
        /\ store' = IF ResumePending(st) THEN [st EXCEPT !.trigger = NoTrigger] ELSE st
        /\ loc' = StartFrames(c, StartLoc(entry, "run", initialPrompt,
                                          buildInitialMessages(prompt)))
        /\ runs' = runs + 1

Run(c, initialPrompt) ==
    /\ ~panicked
    /\ UNCHANGED outsideLoop
    /\ ~Active(c)
    /\ MayCall(c)
    /\ runs < MaxRuns
    /\ \/ /\ AlreadyRunning
          /\ loc' = [loc EXCEPT ![c] = [IdleLoc EXCEPT !.ret = ErrRunAlreadyRunning]]
          /\ runs' = runs + 1
          /\ UNCHANGED <<cfg, registry, provider, running, stopClosed, panicked, cancelled,
                         messages, toolDefs, store>>
       \/ /\ ~AlreadyRunning
          /\ Len(messages) <= MaxHistory
          /\ RunAccepted(c, "Run", initialPrompt, store)
          /\ UNCHANGED <<cfg, registry, provider, panicked, cancelled, messages, toolDefs>>

\* a RunContinue that frames every prompt anew
RebuildHistory(history, userPrompt) == buildInitialMessages(userPrompt)

\* RunContinue's transcript: built on the first call, extended by the user
\* message afterwards
ContinueHistory(history, userPrompt) ==
    IF Len(history) = 0
    THEN buildInitialMessages(userPrompt)
    ELSE Append(history, Msg("user", userPrompt, <<>>, ""))

RunContinue(c, userPrompt) ==
    /\ ~panicked
    /\ UNCHANGED outsideLoop
    /\ ~Active(c)
    /\ MayCall(c)
    /\ runs < MaxRuns
    /\ \/ /\ AlreadyRunning
          /\ loc' = [loc EXCEPT ![c] = [IdleLoc EXCEPT !.ret = ErrContinueAlreadyRunning]]
          /\ runs' = runs + 1
          /\ UNCHANGED <<cfg, registry, provider, running, stopClosed, panicked, cancelled,
                         messages, toolDefs, store>>
       \/ /\ ~AlreadyRunning
          /\ Len(messages) <= MaxHistory
          /\ running' = TRUE
          /\ stopClosed' = FALSE
          /\ messages' = ContinueHistory(messages, userPrompt)
          /\ toolDefs' = IF Len(messages) = 0 THEN buildToolDefinitions(registry) ELSE toolDefs
          /\ loc' = StartFrames(c, StartLoc("RunContinue", "continue", userPrompt, <<>>))
          /\ runs' = runs + 1
          /\ UNCHANGED <<cfg, registry, provider, panicked, cancelled, store>>

\* cmd/domiclaw runResume: a new process; it clears the trigger and runs the
\* agent (a new Loop, a new context) with the persisted prompt
runResume(c) ==
    /\ ~panicked
    /\ UNCHANGED outsideLoop
    /\ MayCall(c)
    /\ \A d \in Callers : ~Active(d)
    /\ ~running
    /\ runs < MaxRuns
    /\ store.trigger.pending
    /\ LET resumePrompt == IF store.resumePrompt = "" THEN DefaultResumePrompt
                           ELSE store.resumePrompt
       IN  RunAccepted(c, "resume", resumePrompt, [store EXCEPT !.trigger = NoTrigger])
    /\ cancelled' = FALSE
    /\ messages' = <<>>
    /\ toolDefs' = {}
    /\ UNCHANGED <<cfg, registry, provider, panicked>>

Stop ==
    /\ ~panicked
    /\ UNCHANGED outsideLoop
    /\ \/ /\ ~running
          /\ UNCHANGED vars
       \/ /\ running
          /\ ~stopClosed
          /\ stopClosed' = TRUE
          /\ UNCHANGED <<cfg, registry, provider, running, panicked, cancelled, messages,
                         toolDefs, loc, runs, store>>
       \/ /\ running
          /\ stopClosed        \* close of a closed channel
          /\ panicked' = TRUE
          /\ UNCHANGED <<cfg, registry, provider, running, stopClosed, cancelled, messages,
                         toolDefs, loc, runs, store>>

ClearHistory ==
    /\ ~panicked
    /\ UNCHANGED outsideLoop
    /\ messages # <<>>
    /\ messages' = <<>>
    /\ UNCHANGED <<cfg, registry, provider, running, stopClosed, panicked, cancelled,
                   toolDefs, loc, runs, store>>

\* the caller cancels the context it passed to Run / RunContinue
Cancel ==
    /\ ~panicked
    /\ UNCHANGED outsideLoop
    /\ ~cancelled
    /\ cancelled' = TRUE
    /\ UNCHANGED <<cfg, registry, provider, running, stopClosed, panicked, messages,
                   toolDefs, loc, runs, store>>

-----------------------------------------------------------------------------
(* Steps of runAgentLoop / runInteractiveLoop *)

SetLoc(c, frame) == loc' = [loc EXCEPT ![c] = frame]

\* a cap that is reported as a failure
CapExceeded == "max iterations reached"

\* the outcome of the iteration cap
CapOutcome == Nil

\* a return that releases the guard on the success path only
ReturnHolding(c, frame, value) ==
    /\ SetLoc(c, [frame EXCEPT !.pc = "idle", !.ret = value])
    /\ running' = (value # Nil)

\* return from Run / RunContinue: the deferred release of the guard
Return(c, frame, value) ==
    /\ SetLoc(c, [frame EXCEPT !.pc = "idle", !.ret = value])
    /\ running' = FALSE

\* provider.ChatStream is entered: the request is on the wire
SendRequest(frame) ==
    [frame EXCEPT !.pc = "inflight", !.err = "", !.iterCalls = @ + 1]

\* checkpoints that look at the stop request only
StopOnlyAborts == IF stopClosed THEN {Nil} ELSE {}

\* the cases of a select that are ready, as the values the call returns
ReadyAborts == (IF cancelled THEN {ErrCanceled} ELSE {}) \cup (IF stopClosed THEN {Nil} ELSE {})

\* top of the iteration: the for condition, the checkpoint, the first attempt
LoopTop(c) ==
    /\ ~panicked
    /\ UNCHANGED outsideLoop
    /\ loc[c].pc = "loop"
    /\ \/ /\ loc[c].iteration >= cfg.MaxToolIterations
          /\ Return(c, loc[c], CapOutcome)
       \/ /\ loc[c].iteration < cfg.MaxToolIterations
          /\ ReadyAborts # {}
          /\ \E v \in ReadyAborts : Return(c, loc[c], v)
       \/ /\ loc[c].iteration < cfg.MaxToolIterations
          /\ ReadyAborts = {}
          /\ SetLoc(c, SendRequest([loc[c] EXCEPT !.attempt = 0, !.err = "", !.resp = NoResponse,
                                               !.iterCalls = 0, !.waits = <<>>]))
          /\ UNCHANGED running
    /\ UNCHANGED <<cfg, registry, provider, stopClosed, panicked, cancelled, messages, toolDefs,
                   runs, store>>

\* what ChatStream can return
ChatOutcomes ==
    {[err |-> "", resp |-> r] : r \in provider.responses}
      \cup {[err |-> e, resp |-> NoResponse] : e \in provider.errors}
      \cup (IF cancelled THEN {[err |-> ErrSendCanceled, resp |-> NoResponse]} ELSE {})

\* ChatStream returns; a rate-limit error starts a backoff wait
ChatReturn(c) ==
    /\ ~panicked
    /\ UNCHANGED outsideLoop
    /\ loc[c].pc = "inflight"
    /\ \E o \in ChatOutcomes :
         IF o.err \in RateLimitErrors
         THEN SetLoc(c, [loc[c] EXCEPT !.pc = "backoff", !.err = o.err, !.resp = o.resp,
                                        !.waits = Append(@, BackoffSeconds(loc[c].attempt))])
         ELSE SetLoc(c, [loc[c] EXCEPT !.pc = "after", !.err = o.err, !.resp = o.resp])
    /\ UNCHANGED <<cfg, registry, provider, running, stopClosed, panicked, cancelled, messages,
                   toolDefs, runs, store>>

\* the backoff select is left through ctx.Done() or stopChan
BackoffAbort(c) ==
    /\ ~panicked
    /\ UNCHANGED outsideLoop
    /\ loc[c].pc = "backoff"
    /\ \E v \in ReadyAborts : Return(c, loc[c], v)
    /\ UNCHANGED <<cfg, registry, provider, stopClosed, panicked, cancelled, messages, toolDefs,
                   runs, store>>

\* an attempt loop that never advances
StuckAttempt(attempt) == attempt

\* attempt++ of the attempt loop
NextAttempt(attempt) == attempt + 1

\* the backoff timer fires first: continue with the next attempt, if any
BackoffExpire(c) ==
    /\ ~panicked
    /\ UNCHANGED outsideLoop
    /\ loc[c].pc = "backoff"
    /\ ReadyAborts = {}
    /\ LET next == [loc[c] EXCEPT !.attempt = NextAttempt(@)]
       IN  IF next.attempt < MaxAttempts
           THEN SetLoc(c, SendRequest(next))
           ELSE SetLoc(c, [next EXCEPT !.pc = "after"])
    /\ UNCHANGED <<cfg, registry, provider, running, stopClosed, panicked, cancelled, messages,
                   toolDefs, runs, store>>

\* append to the transcript of the call
AppendTranscript(c, frame, msgs) ==
    IF frame.mode = "continue"
    THEN /\ messages' = messages \o msgs
         /\ SetLoc(c, frame)
    ELSE /\ messages' = messages
         /\ SetLoc(c, [frame EXCEPT !.messages = @ \o msgs])

\* handleContextOverflow: the trigger and the gap-analysis prompt it persists;
\* the result of WriteResumePrompt is not looked at, so a failed write leaves
\* the prompt file as it was
handleContextOverflow(st, promptWritten) ==
    [trigger |-> [pending |-> TRUE, reason |-> "context_overflow"],
     resumePrompt |-> IF promptWritten THEN GapAnalysisPrompt ELSE st.resumePrompt]

\* an assistant message that records the names as the model sent them
AssistantMessageRaw(resp) == Msg("assistant", resp.content, resp.toolCalls, "")

\* the assistant message of a response with tool calls: canonical names
AssistantMessage(resp) ==
    Msg("assistant", resp.content,
        [i \in 1..Len(resp.toolCalls) |->
            [resp.toolCalls[i] EXCEPT !.name = ResolveName(registry, resp.toolCalls[i].name)]],
        "")

\* after the attempt loop: the error paths, the terminal response, or the
\* assistant message of a response that carries tool calls
ProcessResult(c) ==
    /\ ~panicked
    /\ UNCHANGED outsideLoop
    /\ loc[c].pc = "after"
    /\ \/ /\ loc[c].err # ""
          /\ loc[c].err \in OverflowErrors
          /\ \E promptWritten \in BOOLEAN :
                store' = handleContextOverflow(store, promptWritten)
          /\ Return(c, [loc[c] EXCEPT !.notes = @ + 1], ErrOverflow)
          /\ UNCHANGED messages
       \/ /\ loc[c].err # ""
          /\ loc[c].err \notin OverflowErrors
          /\ Return(c, loc[c], LLMCallFailed(loc[c].err))
          /\ UNCHANGED <<messages, store>>
       \/ /\ loc[c].err = ""
          /\ Len(loc[c].resp.toolCalls) = 0
          /\ messages' = IF loc[c].mode = "continue" /\ loc[c].resp.content # ""
                         THEN Append(messages, Msg("assistant", loc[c].resp.content, <<>>, ""))
                         ELSE messages
          /\ Return(c, loc[c], Nil)
          /\ UNCHANGED store
       \/ /\ loc[c].err = ""
          /\ Len(loc[c].resp.toolCalls) > 0
          /\ AppendTranscript(c, [loc[c] EXCEPT !.pc = "tools", !.tcIdx = 1, !.attempt = 0,
                                                 !.iterCalls = 0, !.waits = <<>>],
                              <<AssistantMessage(loc[c].resp)>>)
          /\ UNCHANGED <<running, store>>
    /\ UNCHANGED <<cfg, registry, provider, stopClosed, panicked, cancelled, toolDefs, runs>>

\* the signature of an iteration: its first tool call as the model sent it
ToolSignature(resp) ==
    marshalArgs(resp.toolCalls[1].arguments) \o ":" \o resp.toolCalls[1].name

\* repeat detection that keeps its count after a hint
LoopBreakerNoReset(lastToolSig, repeatCount, currentSig) ==
    IF currentSig = lastToolSig
    THEN [lastToolSig |-> lastToolSig, repeatCount |-> repeatCount + 1,
          inject |-> repeatCount + 1 >= maxRepeats]
    ELSE [lastToolSig |-> currentSig, repeatCount |-> 0, inject |-> FALSE]

\* repeat detection at the end of an iteration
LoopBreaker(lastToolSig, repeatCount, currentSig) ==
    IF currentSig = lastToolSig
    THEN IF repeatCount + 1 >= maxRepeats
         THEN [lastToolSig |-> "", repeatCount |-> 0, inject |-> TRUE]
         ELSE [lastToolSig |-> lastToolSig, repeatCount |-> repeatCount + 1, inject |-> FALSE]
    ELSE [lastToolSig |-> currentSig, repeatCount |-> 0, inject |-> FALSE]

\* checkStrategicBoundary appends a daily note for the first pattern found
BoundaryFound(content) == \E pattern \in BoundaryPatterns : Contains(content, pattern)

\* a tool message that drops the error marker
ToolMessageBare(tc, availableTools) ==
    Msg("tool", Execute(registry, tc.name, tc.arguments, availableTools).text, <<>>, tc.id)

\* the tool message of a dispatched call: its result, or "Error: " and its error
ToolMessage(tc, availableTools) ==
    LET r == Execute(registry, tc.name, tc.arguments, availableTools)
    IN  Msg("tool", IF r.ok THEN r.text ELSE "Error: " \o r.text, <<>>, tc.id)

\* one tool call is dispatched and its result appended; after the last call of
\* the iteration: repeat detection, boundary scan, next iteration
ExecTool(c) ==
    /\ ~panicked
    /\ UNCHANGED outsideLoop
    /\ loc[c].pc = "tools"
    /\ \E availableTools \in List(registry) :
       LET resp == loc[c].resp
           toolMsg == ToolMessage(resp.toolCalls[loc[c].tcIdx], availableTools)
       IN  IF loc[c].tcIdx < Len(resp.toolCalls)
           THEN /\ AppendTranscript(c, [loc[c] EXCEPT !.tcIdx = @ + 1], <<toolMsg>>)
                /\ UNCHANGED store
           ELSE LET sig == ToolSignature(resp)
                    b == LoopBreaker(loc[c].lastToolSig, loc[c].repeatCount, sig)
                    hint == Msg("user", IF loc[c].mode = "continue" THEN RepeatHintContinue
                                        ELSE RepeatHintRun, <<>>, "")
                    scan == /\ loc[c].mode = "run"
                            /\ cfg.StrategicCompact
                            /\ resp.content # ""
                            /\ BoundaryFound(resp.content)
                IN  /\ AppendTranscript(c,
                          [loc[c] EXCEPT !.pc = "loop", !.tcIdx = 0,
                                         !.iteration = @ + 1,
                                         !.lastToolSig = b.lastToolSig,
                                         !.repeatCount = b.repeatCount,
                                         !.sigs = Append(@, resp.toolCalls[1]),
                                         !.hints = IF b.inject THEN @ + 1 ELSE @,
                                         !.notes = IF scan THEN @ + 1 ELSE @],
                          IF b.inject THEN <<toolMsg, hint>> ELSE <<toolMsg>>)
                    /\ UNCHANGED store
    /\ UNCHANGED <<cfg, registry, provider, running, stopClosed, panicked, cancelled, toolDefs,
                   runs>>

-----------------------------------------------------------------------------

Next ==
    \/ \E c \in Callers, p \in Prompts : Run(c, p)
    \/ \E c \in Callers, p \in Prompts : RunContinue(c, p)
    \/ \E c \in Callers : runResume(c)
    \/ Stop
    \/ ClearHistory
    \/ Cancel
    \/ \E c \in Callers : LoopTop(c)
    \/ \E c \in Callers : ChatReturn(c)
    \/ \E c \in Callers : BackoffAbort(c)
    \/ \E c \in Callers : BackoffExpire(c)
    \/ \E c \in Callers : ProcessResult(c)
    \/ \E c \in Callers : ExecTool(c)

Spec == Init /\ [][Next]_vars

\* One call to a provider that never fails and keeps asking for tools, with an
\* iteration budget long enough for the repeat detection to fire twice.
BreakerIterations == 6

InitBreaker ==
    /\ cfg = [MaxToolIterations |-> BreakerIterations, StrategicCompact |-> TRUE]
    /\ registry = NewLoopRegistry
    /\ running = FALSE
    /\ stopClosed = FALSE
    /\ panicked = FALSE
    /\ cancelled = FALSE
    /\ provider = [responses |-> {RespExec, RespBash, RespRead, RespPair, RespFinal},
                   errors |-> {}]
    /\ messages = <<>>
    /\ toolDefs = {}
    /\ loc = [c \in Callers |-> IdleLoc]
    /\ runs = MaxRuns - 1
    /\ store = [trigger |-> NoTrigger, resumePrompt |-> ""]
    /\ executed = <<>>
    /\ NoStream
    /\ request = NoRequest
    /\ exchange = NoExchange
    /\ service = NoService

NextBreaker ==
    \/ \E c \in Callers, p \in Prompts : Run(c, p)
    \/ \E c \in Callers, p \in Prompts : RunContinue(c, p)
    \/ \E c \in Callers : LoopTop(c)
    \/ \E c \in Callers : ChatReturn(c)
    \/ \E c \in Callers : ProcessResult(c)
    \/ \E c \in Callers : ExecTool(c)

SpecBreaker == InitBreaker /\ [][NextBreaker]_vars

\* One call to a provider that never fails and asks for tools that fail or are
\* not registered.
InitTools ==
    /\ cfg = [MaxToolIterations |-> MaxToolIterations, StrategicCompact |-> TRUE]
    /\ registry = NewLoopRegistry
    /\ running = FALSE
    /\ stopClosed = FALSE
    /\ panicked = FALSE
    /\ cancelled = FALSE
    /\ provider = [responses |-> {RespExec, RespMulti, RespFinal}, errors |-> {}]
    /\ messages = <<>>
    /\ toolDefs = {}
    /\ loc = [c \in Callers |-> IdleLoc]
    /\ runs = MaxRuns - 1
    /\ store = [trigger |-> NoTrigger, resumePrompt |-> ""]
    /\ executed = <<>>
    /\ NoStream
    /\ request = NoRequest
    /\ exchange = NoExchange
    /\ service = NoService

SpecTools == InitTools /\ [][NextBreaker]_vars

-----------------------------------------------------------------------------
(* The registry on its own *)

MaxCalls == 2            \* Execute calls made on the registry per behaviour

\* names of tools that get registered, aliases, and names Execute is called with
ToolNames == {"exec", "read_file"}
AliasNames == {"Bash", "bash", "Read"}
CallNames == {"exec", "BASH", "read", "search"}

\* a Loop that is never started
LoopIdle ==
    /\ cfg = [MaxToolIterations |-> MaxToolIterations, StrategicCompact |-> TRUE]
    /\ running = FALSE
    /\ stopClosed = FALSE
    /\ panicked = FALSE
    /\ cancelled = FALSE
    /\ provider = [responses |-> {}, errors |-> {}]
    /\ messages = <<>>
    /\ toolDefs = {}
    /\ loc = [c \in Callers |-> IdleLoc]
    /\ runs = 0
    /\ store = [trigger |-> NoTrigger, resumePrompt |-> ""]

\* NewRegistry
InitRegistry ==
    /\ LoopIdle
    /\ registry = EmptyRegistry
    /\ executed = <<>>
    /\ NoStream
    /\ request = NoRequest
    /\ exchange = NoExchange
    /\ service = NoService

\* r.Register(tool)
RegisterTool(name) ==
    /\ registry' = Register(registry, name)
    /\ UNCHANGED <<elsewhere, request, loopVars, executed, streamVars>>

\* r.RegisterAlias(alias, canonicalName)
RegisterToolAlias(alias, canonicalName) ==
    /\ registry' = RegisterAlias(registry, alias, canonicalName)
    /\ UNCHANGED <<elsewhere, request, loopVars, executed, streamVars>>

\* r.Execute(ctx, name, args)
ExecuteCall(name, args) ==
    /\ Len(executed) < MaxCalls
    /\ \E availableTools \in List(registry) :
          executed' = Append(executed,
                        [name |-> name, args |-> args,
                         outcome |-> Execute(registry, name, args, availableTools)])
    /\ UNCHANGED <<elsewhere, request, loopVars, registry, streamVars>>

NextRegistry ==
    \/ \E name \in ToolNames : RegisterTool(name)
    \/ \E alias \in AliasNames, canonicalName \in ToolNames : RegisterToolAlias(alias, canonicalName)
    \/ \E name \in CallNames, args \in {ArgsFalse} : ExecuteCall(name, args)

SpecRegistry == InitRegistry /\ [][NextRegistry]_vars

-----------------------------------------------------------------------------
(* JSON texts of tool arguments *)

\* the character of s at position i, "" past its end
CharAt(s, i) == IF i >= 1 /\ i <= Len(s) THEN SubSeq(s, i, i) ELSE ""

\* the first position from i on that holds no white space
RECURSIVE SkipSpace(_, _)
SkipSpace(s, i) == IF CharAt(s, i) = " " THEN SkipSpace(s, i + 1) ELSE i

\* the position of the quote that closes a string whose text starts at i,
\* 0 if there is none
RECURSIVE ClosingQuote(_, _)
ClosingQuote(s, i) ==
    IF i > Len(s) THEN 0
    ELSE IF CharAt(s, i) = "\"" THEN i
    ELSE ClosingQuote(s, i + 1)

\* a JSON string at position i: its text and the position after it
ParseString(s, i) ==
    LET close == ClosingQuote(s, i + 1)
    IN  IF CharAt(s, i) = "\"" /\ close > 0
        THEN [ok |-> TRUE, text |-> SubSeq(s, i + 1, close - 1), next |-> close + 1]
        ELSE [ok |-> FALSE, text |-> "", next |-> i]

\* the members of an object from position i on, added to members (a later
\* member replaces an earlier one of the same key), up to the closing brace
RECURSIVE ParseMembers(_, _, _)
ParseMembers(s, i, members) ==
    LET key == ParseString(s, SkipSpace(s, i))
        colon == SkipSpace(s, key.next)
        val == ParseString(s, SkipSpace(s, colon + 1))
        after == SkipSpace(s, val.next)
        found == [k \in DOMAIN members \cup {key.text} |->
                     IF k = key.text THEN val.text ELSE members[k]]
    IN  IF ~key.ok \/ CharAt(s, colon) # ":" \/ ~val.ok
        THEN [ok |-> FALSE, value |-> <<>>, next |-> i]
        ELSE IF CharAt(s, after) = "," THEN ParseMembers(s, after + 1, found)
        ELSE IF CharAt(s, after) = "}"
             THEN [ok |-> TRUE, value |-> found, next |-> after + 1]
        ELSE [ok |-> FALSE, value |-> <<>>, next |-> i]

\* json.Unmarshal of a text into a map[string]interface{}, for objects whose
\* values are strings: ok is FALSE when the text is not one complete object
Unmarshal(text) ==
    LET open == SkipSpace(text, 1)
        first == SkipSpace(text, open + 1)
        parsed == IF CharAt(text, first) = "}"
                  THEN [ok |-> TRUE, value |-> <<>>, next |-> first + 1]
                  ELSE ParseMembers(text, open + 1, <<>>)
    IN  IF CharAt(text, open) = "{" /\ parsed.ok
           /\ SkipSpace(text, parsed.next) = Len(text) + 1
        THEN [ok |-> TRUE, value |-> parsed.value]
        ELSE [ok |-> FALSE, value |-> <<>>]

-----------------------------------------------------------------------------
(* AnthropicProvider.parseSSEStream: one response stream, decoded event by event *)

MaxBlocks == 2           \* tool_use blocks of one streamed reply

\* token counts the server reports
InputTokens == 10
OutputTokens == 5

\* the tool_use blocks the server streams: block i (from 0) has the id
\* toolu_<i+1> and sends its input in the fragments of BlockFragments (the
\* third tool takes no arguments: nothing is sent for it)
BlockNames == <<"exec", "read_file", "list_dir">>
BlockFragments == << <<"{\"command\":", " \"ls\"}">>, <<"{\"path\":\"a.go\"}">>, <<>> >>
BlockId(i) == "toolu_" \o ToString(i + 1)
BlockName(i) == BlockNames[(i % Len(BlockNames)) + 1]
Fragments(i) == BlockFragments[(i % Len(BlockFragments)) + 1]
TextFragments == <<"Hel", "lo">>

\* one SSE event: the "event:" line and the fields of its "data:" line that
\* the decoder reads; valid is FALSE when the data is not JSON
SSE(event) ==
    [event |-> event, valid |-> TRUE, index |-> 0, blockType |-> "", id |-> "", name |-> "",
     deltaType |-> "", text |-> "", partialJSON |-> "", inputTokens |-> 0,
     outputTokens |-> 0, errType |-> "", errMessage |-> ""]

\* providers.StreamEvent
StreamEvent(type) ==
    [Type |-> type, Text |-> "", ToolID |-> "", Name |-> "", Input |-> "",
     Usage |-> Usage(0, 0, 0), Error |-> ""]

\* providers.ToolCall as the adapter fills it: Function.Arguments is the raw JSON
ProviderToolCall(id, name, arguments, raw) ==
    [id |-> id, type |-> "function", name |-> name, arguments |-> arguments,
     function |-> [name |-> name, arguments |-> raw]]

\* positions of the wire that hold an event of block i
Events(kind, i) == {n \in 1..Len(wire) : wire[n].event = kind /\ wire[n].index = i}
Started(i) == Events("content_block_start", i) # {}
Stopped(i) == Events("content_block_stop", i) # {}
Sent(i) == Cardinality({n \in Events("content_block_delta", i) :
                           wire[n].deltaType = "input_json_delta"})
TextSent == Cardinality({n \in 1..Len(wire) : wire[n].deltaType = "text_delta"})
Seen(kind) == \E n \in 1..Len(wire) : wire[n].event = kind

\* a block has been started and not stopped
BlockOpen == \E j \in 0..(MaxBlocks - 1) : Started(j) /\ ~Stopped(j)

\* the events the server can send next: message_start first; then the
\* blocks one after the other in any order of their indices, each a start, some
\* of its fragments and a stop, with single text deltas between the blocks and
\* at most one error event anywhere; then message_delta and message_stop
ServerEvents ==
    IF wire = <<>> THEN {[SSE("message_start") EXCEPT !.inputTokens = InputTokens]}
    ELSE IF Seen("message_stop") THEN {}
    ELSE IF Seen("message_delta") THEN {SSE("message_stop")}
    ELSE
      (IF BlockOpen
       THEN {[SSE("content_block_delta") EXCEPT
                 !.index = i, !.deltaType = "input_json_delta",
                 !.partialJSON = Fragments(i)[Sent(i) + 1]] :
               i \in {j \in 0..(MaxBlocks - 1) :
                         Started(j) /\ ~Stopped(j) /\ Sent(j) < Len(Fragments(j))}}
            \cup
            {[SSE("content_block_stop") EXCEPT !.index = i] :
               i \in {j \in 0..(MaxBlocks - 1) : Started(j) /\ ~Stopped(j)}}
       ELSE {[SSE("content_block_start") EXCEPT
                 !.index = i, !.blockType = "tool_use",
                 !.id = BlockId(i), !.name = BlockName(i)] :
               i \in {j \in 0..(MaxBlocks - 1) : ~Started(j)}}
            \cup
            (IF wire[Len(wire)].deltaType # "text_delta"
             THEN {[SSE("content_block_delta") EXCEPT
                       !.index = MaxBlocks, !.deltaType = "text_delta",
                       !.text = TextFragments[(TextSent % Len(TextFragments)) + 1]]}
             ELSE {})
            \cup
            {[SSE("message_delta") EXCEPT !.outputTokens = OutputTokens]})
      \cup
      (IF Seen("error") THEN {}
       ELSE {[SSE("error") EXCEPT !.valid = v, !.errType = "overloaded_error",
                                   !.errMessage = "Overloaded"] : v \in BOOLEAN})

\* a request body is about to be read: ChatStream calls parseSSEStream
InitStream ==
    /\ LoopIdle
    /\ registry = NewLoopRegistry
    /\ executed = <<>>
    /\ wire = <<>>
    /\ callback \in BOOLEAN
    /\ result = ProviderResponse("", <<>>, Usage(0, 0, 0))
    /\ toolCallAccum = <<>>
    /\ delivered = <<>>
    /\ returned = NotReturned
    /\ request = NoRequest
    /\ exchange = NoExchange
    /\ service = NoService

\* scanner.Scan() has yielded the lines of evt
Scanned(evt) ==
    /\ ~returned.done
    /\ wire' = Append(wire, evt)
    /\ UNCHANGED <<elsewhere, request, loopVars, registry, executed, callback>>

\* a delivery that puts the newest event first
EmitFirst(event) == delivered' = IF callback THEN <<event>> \o delivered ELSE delivered

\* if callback != nil { callback(event) }
Emit(event) == delivered' = IF callback THEN Append(delivered, event) ELSE delivered

\* case "message_start"
MessageStart(evt) ==
    /\ evt.event = "message_start"
    /\ Scanned(evt)
    /\ result' = IF evt.valid THEN [result EXCEPT !.usage.PromptTokens = evt.inputTokens]
                  ELSE result
    /\ UNCHANGED <<toolCallAccum, delivered, returned>>

\* case "content_block_start"
ContentBlockStart(evt) ==
    /\ evt.event = "content_block_start"
    /\ Scanned(evt)
    /\ IF evt.valid /\ evt.blockType = "tool_use"
       THEN /\ toolCallAccum' =
                   [i \in DOMAIN toolCallAccum \cup {evt.index} |->
                       IF i = evt.index
                       THEN [id |-> evt.id, name |-> evt.name, inputJSON |-> ""]
                       ELSE toolCallAccum[i]]
            /\ Emit([StreamEvent("tool_start") EXCEPT !.ToolID = evt.id, !.Name = evt.name])
       ELSE UNCHANGED <<toolCallAccum, delivered>>
    /\ UNCHANGED <<result, returned>>

\* tc.inputJSON.WriteString(partialJSON) for the block of this index, if any
AppendFragment(accum, index, partialJSON) ==
    IF index \in DOMAIN accum
    THEN [accum EXCEPT ![index].inputJSON = @ \o partialJSON]
    ELSE accum

\* case "content_block_delta"
ContentBlockDelta(evt) ==
    /\ evt.event = "content_block_delta"
    /\ Scanned(evt)
    /\ IF evt.valid /\ evt.deltaType = "text_delta"
       THEN /\ result' = [result EXCEPT !.content = @ \o evt.text]
            /\ Emit([StreamEvent("text") EXCEPT !.Text = evt.text])
            /\ UNCHANGED toolCallAccum
       ELSE IF evt.valid /\ evt.deltaType = "input_json_delta"
       THEN /\ toolCallAccum' = AppendFragment(toolCallAccum, evt.index, evt.partialJSON)
            /\ Emit([StreamEvent("tool_delta") EXCEPT !.Input = evt.partialJSON])
            /\ UNCHANGED result
       ELSE UNCHANGED <<result, toolCallAccum, delivered>>
    /\ UNCHANGED returned

\* a ToolCall that passes on the text it could not parse
UnparsedToolCall(tc) ==
    ProviderToolCall(tc.id, tc.name,
                     IF Unmarshal(tc.inputJSON).ok THEN Unmarshal(tc.inputJSON).value
                     ELSE [input |-> tc.inputJSON],
                     tc.inputJSON)

\* the ToolCall of a finished block: arguments stay nil (here: empty) when the
\* accumulated text does not parse
FinishedToolCall(tc) ==
    ProviderToolCall(tc.id, tc.name, Unmarshal(tc.inputJSON).value, tc.inputJSON)

\* case "content_block_stop"
ContentBlockStop(evt) ==
    /\ evt.event = "content_block_stop"
    /\ Scanned(evt)
    /\ IF evt.valid /\ evt.index \in DOMAIN toolCallAccum
       THEN LET tc == toolCallAccum[evt.index]
            IN  /\ result' = [result EXCEPT !.toolCalls = Append(@, FinishedToolCall(tc))]
                /\ Emit([StreamEvent("tool_end") EXCEPT !.ToolID = tc.id, !.Name = tc.name])
       ELSE UNCHANGED <<result, delivered>>
    /\ UNCHANGED <<toolCallAccum, returned>>

\* case "message_delta"
MessageDelta(evt) ==
    /\ evt.event = "message_delta"
    /\ Scanned(evt)
    /\ result' = IF evt.valid
                  THEN [result EXCEPT
                          !.usage.CompletionTokens = evt.outputTokens,
                          !.usage.TotalTokens = result.usage.PromptTokens + evt.outputTokens]
                  ELSE result
    /\ UNCHANGED <<toolCallAccum, delivered, returned>>

\* case "message_stop"
MessageStop(evt) ==
    /\ evt.event = "message_stop"
    /\ Scanned(evt)
    /\ Emit([StreamEvent("done") EXCEPT !.Usage = result.usage])
    /\ UNCHANGED <<result, toolCallAccum, returned>>

\* the text of the error a stream error event is turned into
StreamErrorMessage(evt) == evt.errType \o ": " \o evt.errMessage

\* case "error"
StreamError(evt) ==
    /\ evt.event = "error"
    /\ Scanned(evt)
    /\ IF evt.valid
       THEN /\ Emit([StreamEvent("error") EXCEPT !.Error = StreamErrorMessage(evt)])
            /\ returned' = [NotReturned EXCEPT
                               !.done = TRUE,
                               !.err = "anthropic stream error: " \o StreamErrorMessage(evt)]
       ELSE UNCHANGED <<delivered, returned>>
    /\ UNCHANGED <<result, toolCallAccum>>

\* scanner.Scan() returns false: the body has ended, or reading it has failed
EndOfStream(readFailed) ==
    /\ ~returned.done
    /\ wire # <<>>
    /\ ~readFailed => wire[Len(wire)].event = "message_stop"
    /\ returned' = IF readFailed
                    THEN [NotReturned EXCEPT !.done = TRUE,
                                             !.err = "SSE stream read error: unexpected EOF"]
                    ELSE [done |-> TRUE, response |-> result, isNil |-> FALSE, err |-> ""]
    /\ UNCHANGED <<elsewhere, request, loopVars, registry, executed, wire, callback, result, toolCallAccum,
                   delivered>>

\* contentBlock of an anthropicResponse
TextBlock(text) == [type |-> "text", text |-> text, id |-> "", name |-> "", input |-> <<>>]
ToolUseBlock(id, name, input) ==
    [type |-> "tool_use", text |-> "", id |-> id, name |-> name, input |-> input]

\* anthropicResponse: the body of a reply that is not streamed
AnthropicResponse(content, inputTokens, outputTokens) ==
    [content |-> content, inputTokens |-> inputTokens, outputTokens |-> outputTokens]

\* Chat, from the parsed body on: the text blocks concatenated, one ToolCall per
\* tool_use block with the input re-marshalled as its raw arguments
RECURSIVE ChatBlocks(_, _)
ChatBlocks(blocks, acc) ==
    IF blocks = <<>> THEN acc
    ELSE LET block == Head(blocks)
         IN  ChatBlocks(Tail(blocks),
                CASE block.type = "text" -> [acc EXCEPT !.content = @ \o block.text]
                  [] block.type = "tool_use" ->
                        [acc EXCEPT !.toolCalls =
                            Append(@, ProviderToolCall(block.id, block.name, block.input,
                                                       marshalArgs(block.input)))]
                  [] OTHER -> acc)

Chat(anthropicResp) ==
    ChatBlocks(anthropicResp.content,
               ProviderResponse("", <<>>,
                   Usage(anthropicResp.inputTokens, anthropicResp.outputTokens,
                         anthropicResp.inputTokens + anthropicResp.outputTokens)))

NextStream ==
    \/ \E evt \in ServerEvents : MessageStart(evt)
    \/ \E evt \in ServerEvents : ContentBlockStart(evt)
    \/ \E evt \in ServerEvents : ContentBlockDelta(evt)
    \/ \E evt \in ServerEvents : ContentBlockStop(evt)
    \/ \E evt \in ServerEvents : MessageDelta(evt)
    \/ \E evt \in ServerEvents : MessageStop(evt)
    \/ \E evt \in ServerEvents : StreamError(evt)
    \/ \E readFailed \in BOOLEAN : EndOfStream(readFailed)

SpecStream == InitStream /\ [][NextStream]_vars

\* A server that repeats itself: between the blocks it may send the
\* content_block_stop of a block it has already stopped once more; it sends
\* no text and no error event.
MaxRepeatedStops == 1

RepeatedStopsSent ==
    Cardinality({n \in 1..Len(wire) : wire[n].event = "content_block_stop"})
      - Cardinality({j \in 0..(MaxBlocks - 1) : Stopped(j)})

RepeatedStops ==
    IF wire = <<>> \/ Seen("message_delta") \/ BlockOpen
       \/ RepeatedStopsSent >= MaxRepeatedStops
    THEN {}
    ELSE {[SSE("content_block_stop") EXCEPT !.index = i] :
            i \in {j \in 0..(MaxBlocks - 1) : Stopped(j)}}

ServerEventsRepeating ==
    {evt \in ServerEvents : evt.event # "error" /\ evt.deltaType # "text_delta"}
      \cup RepeatedStops

NextStreamRepeat ==
    \/ \E evt \in ServerEventsRepeating : MessageStart(evt)
    \/ \E evt \in ServerEventsRepeating : ContentBlockStart(evt)
    \/ \E evt \in ServerEventsRepeating : ContentBlockDelta(evt)
    \/ \E evt \in ServerEventsRepeating : ContentBlockStop(evt)
    \/ \E evt \in ServerEventsRepeating : MessageDelta(evt)
    \/ \E evt \in ServerEventsRepeating : MessageStop(evt)
    \/ \E readFailed \in BOOLEAN : EndOfStream(readFailed)

SpecStreamRepeat == InitStream /\ [][NextStreamRepeat]_vars

-----------------------------------------------------------------------------
(* The Anthropic adapter encoding a transcript: the loop over messages at  *)
(* the head of Chat and of ChatStream, one message a step.                 *)

MaxTurns == 3

\* contentBlock of a request that carries a tool result
ToolResultUntied(msg) ==
    [type |-> "tool_result", toolUseId |-> "", content |-> msg.content]

ToolResultBlock(msg) ==
    [type |-> "tool_result", toolUseId |-> msg.toolCallId, content |-> msg.content]

\* the input of a tool_use block: the raw arguments parsed again when the
\* call carries them (nil when they do not parse), else the Arguments map
ToolUseInput(tc) ==
    IF "function" \in DOMAIN tc
    THEN IF Unmarshal(tc.function.arguments).ok
         THEN Unmarshal(tc.function.arguments).value ELSE <<>>
    ELSE tc.arguments

\* the blocks of an assistant message with tool calls: its text, when it has
\* any, then one tool_use block per call
ToolUseBlocks(msg) ==
    (IF msg.content # "" THEN <<TextBlock(msg.content)>> ELSE <<>>)
    \o [n \in 1..Len(msg.toolCalls) |->
          ToolUseBlock(msg.toolCalls[n].id, msg.toolCalls[n].name,
                       ToolUseInput(msg.toolCalls[n]))]

\* anthropicMessage: Content is a string or a list of content blocks
anthropicMessage(role, text, blocks) == [role |-> role, text |-> text, blocks |-> blocks]

\* what the loop appends for one response: the assistant message, then one
\* tool message per call; a corrective hint; a final answer
Turns ==
    {<<Msg("assistant", resp.content, resp.toolCalls, "")>>
        \o [n \in 1..Len(resp.toolCalls) |->
              Msg("tool", IF resp.toolCalls[n].arguments = ArgsFalse
                          THEN "Error: command failed: exit status 1" ELSE "ok",
                  <<>>, resp.toolCalls[n].id)]
       : resp \in {RespExec, RespBash, RespPair,
                   Response("", <<ProviderToolCall("toolu_9", "exec", ArgsLs,
                                                   "{\"command\": \"ls\"}")>>)}}
    \cup {<<Msg("user", RepeatHintRun, <<>>, "")>>,
          <<Msg("assistant", RespFinal.content, <<>>, "")>>}

\* the transcripts of n turns after the initial messages
RECURSIVE TranscriptsOf(_)
TranscriptsOf(n) ==
    IF n = 0 THEN {buildInitialMessages("fix the bug")}
    ELSE {t \o turn : t \in TranscriptsOf(n - 1), turn \in Turns}

InitEncode ==
    /\ LoopIdle
    /\ registry = NewLoopRegistry
    /\ executed = <<>>
    /\ NoStream
    /\ \E n \in 0..MaxTurns : \E t \in TranscriptsOf(n) :
          request = [NoRequest EXCEPT !.messages = t]
    /\ exchange = NoExchange
    /\ service = NoService

\* the message the loop is at
Current == request.messages[request.next]

Encoding == request.next <= Len(request.messages)

\* a system message: kept as the system prompt, not appended
EncodeSystem ==
    /\ Encoding
    /\ Current.role = "system"
    /\ request' = [request EXCEPT !.systemPrompt = Current.content, !.next = @ + 1]
    /\ UNCHANGED <<elsewhere, loopVars, registry, executed, streamVars>>

\* a tool message: a user message holding one tool_result block
EncodeToolResult ==
    /\ Encoding
    /\ Current.role = "tool"
    /\ request' = [request EXCEPT
                     !.anthropicMsgs =
                         Append(@, anthropicMessage("user", "", <<ToolResultBlock(Current)>>)),
                     !.next = @ + 1]
    /\ UNCHANGED <<elsewhere, loopVars, registry, executed, streamVars>>

\* an assistant message with tool calls: an assistant message of blocks
EncodeToolUse ==
    /\ Encoding
    /\ Current.role = "assistant"
    /\ Len(Current.toolCalls) > 0
    /\ request' = [request EXCEPT
                     !.anthropicMsgs =
                         Append(@, anthropicMessage("assistant", "", ToolUseBlocks(Current))),
                     !.next = @ + 1]
    /\ UNCHANGED <<elsewhere, loopVars, registry, executed, streamVars>>

\* any other message: its role and its text
EncodeRegular ==
    /\ Encoding
    /\ Current.role \notin {"system", "tool"}
    /\ ~(Current.role = "assistant" /\ Len(Current.toolCalls) > 0)
    /\ request' = [request EXCEPT
                     !.anthropicMsgs =
                         Append(@, anthropicMessage(Current.role, Current.content, <<>>)),
                     !.next = @ + 1]
    /\ UNCHANGED <<elsewhere, loopVars, registry, executed, streamVars>>

NextEncode ==
    \/ EncodeSystem
    \/ EncodeToolResult
    \/ EncodeToolUse
    \/ EncodeRegular

SpecEncode == InitEncode /\ [][NextEncode]_vars

-----------------------------------------------------------------------------
(* One HTTP exchange of a vendor adapter: the status and body the vendor   *)
(* answers with, and what Chat / ChatStream returns for them.              *)

Statuses == {200, 201, 400, 429, 500, 529}

\* anthropic: Chat after the body is read
AnthropicChat(status, body) ==
    IF status # 200
    THEN Failed("anthropic", status, body, AnthropicStatusError(status, body))
    ELSE IF ~body.valid
         THEN Failed("anthropic", status, body, "failed to parse response: " \o JSONSyntaxError)
         ELSE Answered("anthropic", status, body,
                       Chat(AnthropicResponse(body.content, InputTokens, OutputTokens)))

\* anthropic: ChatStream after the response headers are read; a 200 body goes
\* to parseSSEStream
AnthropicChatStream(status, body) ==
    IF status # 200
    THEN Failed("anthropic-stream", status, body, AnthropicStatusError(status, body))
    ELSE [NoExchange EXCEPT !.adapter = "anthropic-stream", !.status = status, !.body = body,
                            !.done = FALSE, !.streamed = TRUE]

\* openrouter: Chat after the body is read
OpenRouterChat(status, body) ==
    IF ~body.valid
    THEN Failed("openrouter", status, body, "failed to parse response: " \o JSONSyntaxError)
    ELSE IF body.error.present
         THEN Failed("openrouter", status, body,
                     "openrouter API error: " \o body.error.type \o " - " \o body.error.message)
         ELSE IF Len(body.choices) = 0
              THEN Failed("openrouter", status, body, "no choices in response")
              ELSE Answered("openrouter", status, body,
                            ProviderResponse(body.choices[1], <<>>, Usage(0, 0, 0)))

InitHttp ==
    /\ LoopIdle
    /\ registry = NewLoopRegistry
    /\ executed = <<>>
    /\ NoStream
    /\ request = NoRequest
    /\ exchange = NoExchange
    /\ service = NoService

AnthropicChatCall(status, body) ==
    /\ exchange' = AnthropicChat(status, body)
    /\ UNCHANGED <<loopVars, registry, executed, streamVars, request, service>>

AnthropicChatStreamCall(status, body) ==
    /\ exchange' = AnthropicChatStream(status, body)
    /\ UNCHANGED <<loopVars, registry, executed, streamVars, request, service>>

OpenRouterChatCall(status, body) ==
    /\ exchange' = OpenRouterChat(status, body)
    /\ UNCHANGED <<loopVars, registry, executed, streamVars, request, service>>

NextHttp ==
    \/ \E status \in Statuses, body \in Bodies : AnthropicChatCall(status, body)
    \/ \E status \in Statuses, body \in Bodies : AnthropicChatStreamCall(status, body)
    \/ \E status \in Statuses, body \in Bodies : OpenRouterChatCall(status, body)

SpecHttp == InitHttp /\ [][NextHttp]_vars

-----------------------------------------------------------------------------
(* The heartbeat Service: Start and Stop called from outside, and the      *)
(* runLoop goroutine of every accepted Start.                              *)

InitHeartbeat ==
    /\ LoopIdle
    /\ registry = NewLoopRegistry
    /\ executed = <<>>
    /\ NoStream
    /\ request = NoRequest
    /\ exchange = NoExchange
    /\ \E enabled \in BOOLEAN : service = NewService(enabled)

\* what the unsynchronized read of s.stopChan in loop l can yield: the
\* channel of the loop's own Start or one made by a later Start
StopChanRead(l) == l..service.made

\* the runLoop goroutines that have been started
Spawned == {l \in Loops : service.loops[l].pc # "none"}

ServiceStep(next) ==
    /\ service' = next
    /\ UNCHANGED <<loopVars, registry, executed, streamVars, request, exchange>>

\* Service.Start: nothing when running, an error when disabled, else a new
\* stop channel and a new runLoop goroutine
ServiceStart ==
    IF service.running
    THEN ServiceStep([service EXCEPT !.startErr = Nil])
    ELSE IF ~service.enabled
         THEN ServiceStep([service EXCEPT !.startErr = "heartbeat service is disabled"])
         ELSE /\ service.made < MaxStarts
              /\ ServiceStep([service EXCEPT
                                !.running = TRUE,
                                !.made = @ + 1,
                                !.stopChan = service.made + 1,
                                !.loops[service.made + 1] = [pc |-> "enter", waitsOn |-> 0],
                                !.startErr = Nil])

\* Service.Stop: nothing when not running, else close(s.stopChan)
ServiceStop ==
    IF ~service.running
    THEN ServiceStep(service)
    ELSE ServiceStep([service EXCEPT !.closed = @ \cup {service.stopChan},
                                     !.running = FALSE])

\* the context given to Start is cancelled
ServiceCancel ==
    /\ ~service.ctxDone
    /\ ServiceStep([service EXCEPT !.ctxDone = TRUE])

\* runLoop enters its select: s.stopChan is read without the mutex, so the
\* read yields the channel of the loop's own Start or any made since
EnterSelect(l) ==
    /\ service.loops[l].pc = "enter"
    /\ \E ch \in StopChanRead(l) :
         ServiceStep([service EXCEPT !.loops[l] = [pc |-> "select", waitsOn |-> ch]])

\* case <-ctx.Done() / case <-s.stopChan: return
LoopReturns(l) ==
    /\ service.loops[l].pc = "select"
    /\ service.ctxDone \/ service.loops[l].waitsOn \in service.closed
    /\ ServiceStep([service EXCEPT !.loops[l].pc = "done"])

\* case <-ticker.C: checkHeartbeat, up to the call of the callback
Tick(l) ==
    /\ service.loops[l].pc = "select"
    /\ ServiceStep([service EXCEPT !.loops[l].pc =
                        IF ~service.enabled \/ ~service.running THEN "enter" ELSE "callback"])

\* the callback returns
CallbackReturns(l) ==
    /\ service.loops[l].pc = "callback"
    /\ ServiceStep([service EXCEPT !.loops[l].pc = "enter"])

NextHeartbeat ==
    \/ ServiceStart
    \/ ServiceStop
    \/ ServiceCancel
    \/ \E l \in Loops : EnterSelect(l)
    \/ \E l \in Loops : LoopReturns(l)
    \/ \E l \in Loops : Tick(l)
    \/ \E l \in Loops : CallbackReturns(l)

SpecHeartbeat == InitHeartbeat /\ [][NextHeartbeat]_vars

-----------------------------------------------------------------------------
\* Properties

\* the most tool calls one response of the provider's repertoire carries
MaxToolCalls ==
    LET lens == {Len(r.toolCalls) : r \in Responses}
    IN  CHOOSE n \in lens : \A m \in lens : m <= n

\* what is left of one iteration, by position: the attempts not yet made count
\* double (a request and its backoff wait), the tool calls not yet run once
WithinIteration(frame) ==
    LET after == MaxToolCalls + 2
    IN  CASE frame.pc = "idle"     -> 0
          [] frame.pc = "tools"    -> 1 + Len(frame.resp.toolCalls) - frame.tcIdx
          [] frame.pc = "after"    -> 2 + Len(frame.resp.toolCalls)
          [] frame.pc = "backoff"  -> after + 2 * (MaxAttempts - frame.attempt) - 1
          [] frame.pc = "inflight" -> after + 2 * (MaxAttempts - frame.attempt)
          [] frame.pc = "loop"     -> after + 2 * MaxAttempts + 1

\* a measure of the work a call may still do
Rank(frame) ==
    (cfg.MaxToolIterations - frame.iteration) * (MaxToolCalls + 2 * MaxAttempts + 4)
    + WithinIteration(frame)

\* a step of the call of c
CallStep(c) ==
    \/ LoopTop(c)
    \/ ChatReturn(c)
    \/ BackoffAbort(c)
    \/ BackoffExpire(c)
    \/ ProcessResult(c)
    \/ ExecTool(c)

\* the call of c was accepted in this step
CallStarts(c) == loc[c].pc = "idle" /\ loc'[c].pc = "loop"

\* C1: every Run/RunContinue call terminates when model calls and tool
\* executions return: a call never exceeds maxToolIterations iterations nor 3
\* model-call attempts in an iteration, every step of a call strictly lowers a
\* non-negative measure of the remaining work, and a call that has not returned
\* can always take its next step (unless the process has crashed).
C1_Terminates ==
    /\ [](\A c \in Callers :
            /\ loc[c].iteration <= cfg.MaxToolIterations
            /\ loc[c].attempt <= MaxAttempts
            /\ loc[c].iterCalls <= MaxAttempts
            /\ loc[c].pc \in {"inflight", "backoff"} => loc[c].attempt < MaxAttempts
            /\ loc[c].pc = "inflight" => loc[c].iteration < cfg.MaxToolIterations
            /\ Rank(loc[c]) >= 0
            /\ (Active(c) /\ ~panicked) => ENABLED CallStep(c))
    /\ [][\A c \in Callers :
            (Active(c) /\ loc'[c] # loc[c]) => Rank(loc'[c]) < Rank(loc[c])]_vars

\* C1 witness: a call has returned from the last iteration its budget allows, and
\* that iteration made all three model-call attempts
C1_Witness ==
    \E c \in Callers :
        /\ loc[c].pc = "idle"
        /\ loc[c].iteration = cfg.MaxToolIterations - 1
        /\ loc[c].iteration > 0
        /\ loc[c].iterCalls = MaxAttempts

\* C2: on one Loop at most one Run/RunContinue is active at a time; a call made
\* while another has not returned gets the 'already running' error, makes no
\* model call and leaves the transcript and everything else as it was.
C2_Reentrancy ==
    /\ [](/\ Cardinality({c \in Callers : Active(c)}) <= 1
          /\ (\E c \in Callers : Active(c)) => running)
    /\ [][\A c \in Callers :
            ((\E d \in Callers \ {c} : Active(d)) /\ ~Active(c) /\ loc'[c] # loc[c])
            => /\ loc'[c] = [IdleLoc EXCEPT !.ret = loc'[c].ret]
               /\ loc'[c].ret \in {ErrRunAlreadyRunning, ErrContinueAlreadyRunning}
               /\ loc'[c].iterCalls = 0
               /\ \A d \in Callers \ {c} : loc'[d] = loc[d]
               /\ UNCHANGED <<messages, toolDefs, running, stopClosed, cancelled, store,
                              provider, registry, cfg>>]_vars

\* C2 witness: one caller's call is waiting for the model while the other
\* caller holds an 'already running' rejection
C2_Witness ==
    \E c \in Callers, d \in Callers :
        /\ c # d
        /\ loc[c].pc = "inflight"
        /\ loc[d].ret \in {ErrRunAlreadyRunning, ErrContinueAlreadyRunning}

\* C3: when maxToolIterations iterations have all returned tool calls, the
\* call returns without an error and the transcript keeps every message
\* appended so far, unmodified.
C3_CapEndsQuietly ==
    [][\A c \in Callers :
         (/\ loc[c].pc = "loop"
          /\ loc[c].iteration >= cfg.MaxToolIterations
          /\ loc'[c] # loc[c])
         => /\ loc'[c].pc = "idle"
            /\ loc'[c].ret = Nil
            /\ Transcript(c)' = Transcript(c)
            /\ loc'[c].sigs = loc[c].sigs
            /\ Len(loc[c].sigs) = cfg.MaxToolIterations]_vars

\* C3 witness: a call has returned success after as many tool-calling
\* iterations as the cap allows
C3_Witness ==
    \E c \in Callers :
        /\ loc[c].pc = "idle"
        /\ loc[c].ret = Nil
        /\ loc[c].iteration = cfg.MaxToolIterations
        /\ Len(loc[c].sigs) = cfg.MaxToolIterations
        /\ Len(Transcript(c)) > 2 * cfg.MaxToolIterations

\* the error outcomes of a call
IsFailure(ret) == ret \notin {Nil, NoRet}

\* C4 as stated: a call that returns because the iteration cap is exhausted
\* returns an error outcome.
C4_CapIsFailure ==
    \A c \in Callers :
        (loc[c].pc = "idle" /\ loc[c].iteration = cfg.MaxToolIterations)
        => IsFailure(loc[c].ret)

\* C4 amended: cap exhaustion is not a reported failure. A call that returns
\* with the cap exhausted returns success, and every error outcome (rejection,
\* cancellation, overflow, failed model call) is returned before the cap is
\* reached.
C4_CapIsNotFailure ==
    \A c \in Callers :
        loc[c].pc = "idle" =>
            /\ loc[c].iteration = cfg.MaxToolIterations => loc[c].ret = Nil
            /\ IsFailure(loc[c].ret) =>
                 /\ loc[c].iteration < cfg.MaxToolIterations
                 /\ loc[c].ret \in {ErrRunAlreadyRunning, ErrContinueAlreadyRunning,
                                    ErrCanceled, ErrOverflow, LLMCallFailed(loc[c].err)}

\* C4 witness: the guard is free again after a call ran into the cap and
\* returned success
C4_Witness ==
    /\ ~running
    /\ \E c \in Callers :
          /\ loc[c].pc = "idle"
          /\ loc[c].iteration = cfg.MaxToolIterations
          /\ loc[c].ret = Nil

\* C5: two rate-limit failures in a row followed by a success make exactly
\* three model-call attempts and exactly two backoff waits, base x 1 then
\* base x 2, and the successful response is then processed as any other: a
\* tool-free response ends the call with success, a response with tool calls
\* adds its assistant message to the transcript and goes on to the tools.
C5_RetryThenSuccess ==
    /\ [](\A c \in Callers :
            (loc[c].pc = "after" /\ loc[c].err = "" /\ loc[c].attempt = 2)
            => /\ loc[c].iterCalls = 3
               /\ loc[c].waits = <<BackoffBaseSeconds * 1, BackoffBaseSeconds * 2>>
               /\ loc[c].waits[1] < loc[c].waits[2])
    /\ [][\A c \in Callers :
            (loc[c].pc = "after" /\ loc[c].err = "" /\ loc'[c] # loc[c])
            => IF Len(loc[c].resp.toolCalls) = 0
               THEN loc'[c].pc = "idle" /\ loc'[c].ret = Nil
               ELSE /\ loc'[c].pc = "tools"
                    /\ Len(Transcript(c)') = Len(Transcript(c)) + 1
                    /\ Transcript(c)'[Len(Transcript(c)')].role = "assistant"]_vars

\* C5 witness: the third attempt of an iteration has just succeeded after two
\* backoff waits
C5_Witness ==
    \E c \in Callers :
        /\ loc[c].pc = "after"
        /\ loc[c].err = ""
        /\ loc[c].resp # NoResponse
        /\ loc[c].attempt = 2
        /\ Len(loc[c].waits) = 2

\* C6 as stated: when all attempts of an iteration failed with a retried
\* (rate-limit-classified) error, the model was called exactly 3 times and the
\* call ends with the failure that carries the last attempt's error.
C6_ExhaustedSurfacesLastError ==
    \A c \in Callers :
        (loc[c].pc = "idle" /\ loc[c].attempt = MaxAttempts)
        => /\ loc[c].iterCalls = 3
           /\ loc[c].ret = LLMCallFailed(loc[c].err)

\* C7 as stated: a call whose model-call error contains "maximum context
\* length" returns the overflow error with the resume trigger written, never
\* anything else.
C7_OverflowClassified ==
    \A c \in Callers :
        (loc[c].pc = "idle" /\ Contains(loc[c].err, "maximum context length"))
        => /\ loc[c].ret = ErrOverflow
           /\ loc[c].notes > 0

\* C8 as stated: after an attempt failed with an error matching a
\* context-overflow signature there is no backoff wait and no further attempt.
C8_OverflowNotRetried ==
    \A c \in Callers :
        (\E sig \in {"context_length_exceeded", "maximum context length", "token limit",
                     "too many tokens"} : Contains(ToLower(loc[c].err), sig))
        => /\ loc[c].pc \notin {"backoff", "inflight"}
           /\ loc[c].waits = <<>>
           /\ loc[c].iterCalls <= 1

\* the initial user message of a Run-mode call
FirstUserMessage(frame) == frame.messages[2]

RECURSIVE HintsOwed(_, _, _)
HintsOwed(calls, i, n) ==
    IF i > Len(calls) THEN n \div 3
    ELSE IF i > 1 /\ calls[i].name = calls[i-1].name
                  /\ calls[i].arguments = calls[i-1].arguments
         THEN HintsOwed(calls, i + 1, n + 1)
         ELSE (n \div 3) + HintsOwed(calls, i + 1, 1)

\* the corrective messages in a transcript
HintsIn(transcript) ==
    Cardinality({i \in 1..Len(transcript) :
                    /\ transcript[i].role = "user"
                    /\ transcript[i].content \in {RepeatHintRun, RepeatHintContinue}})

\* C10: n consecutive iterations of a call whose first tool call has the same
\* name and arguments inject exactly n \div 3 corrective user messages (one in
\* every third iteration of the block), and an iteration with a different
\* first call starts a new block.
C10_LoopBreakerExact ==
    \A c \in Callers :
        loc[c].entry # "none" =>
            /\ HintsIn(Transcript(c)) = HintsOwed(loc[c].sigs, 1, 0)
            /\ loc[c].hints = HintsOwed(loc[c].sigs, 1, 0)

\* C10 witness: six identical iterations have injected two corrective messages
C10_Witness ==
    \E c \in Callers :
        /\ Len(loc[c].sigs) = 6
        /\ \A i \in 1..6 : loc[c].sigs[i] = loc[c].sigs[1]
        /\ HintsIn(Transcript(c)) = 2

\* the first calls of the iterations under their canonical names
Canonical(calls) ==
    [i \in 1..Len(calls) |-> [calls[i] EXCEPT !.name = ResolveName(registry, @)]]

\* C11 as stated: repeats are counted on the canonical name of the first tool
\* call and its arguments, so iterations that name the same tool by different
\* aliases with the same arguments count as repeats and owe a corrective
\* message at every third one.
C11_SignatureIsCanonical ==
    \A c \in Callers :
        loc[c].entry # "none" =>
            HintsIn(Transcript(c)) = HintsOwed(Canonical(loc[c].sigs), 1, 0)

\* C12: when the cancellation signal has fired as an iteration begins, or
\* fires during a backoff wait, the next step of the call is its return: no
\* further model call is made, no tool is run and the transcript stays as it is.
C12_CancelAtCheckpoints ==
    [][\A c \in Callers :
         (/\ cancelled
          /\ loc[c].pc \in {"loop", "backoff"}
          /\ loc'[c] # loc[c])
         => /\ loc'[c].pc = "idle"
            /\ loc'[c].ret \in {ErrCanceled, Nil}
            /\ loc'[c].iterCalls = loc[c].iterCalls
            /\ loc'[c].iteration = loc[c].iteration
            /\ Transcript(c)' = Transcript(c)]_vars

\* C12 witness: a call has returned the cancellation error out of its first
\* backoff wait, with no stop request made
C12_Witness ==
    \E c \in Callers :
        /\ cancelled
        /\ ~stopClosed
        /\ loc[c].pc = "idle"
        /\ loc[c].ret = ErrCanceled
        /\ loc[c].waits = <<BackoffSeconds(0)>>
        /\ loc[c].iterCalls = 1

\* C13 as stated: a call that returns from a checkpoint (top of an iteration
\* or backoff wait) while the cancellation signal has fired returns the
\* cancellation error, also when a stop request has fired as well.
C13_CancelWins ==
    [][\A c \in Callers :
         (/\ cancelled
          /\ \/ loc[c].pc = "backoff"
             \/ loc[c].pc = "loop" /\ loc[c].iteration < cfg.MaxToolIterations
          /\ loc'[c].pc = "idle")
         => loc'[c].ret = ErrCanceled]_vars

\* C14 as stated, for a response that has text: when the first model response
\* of a call carries no tool calls, the call returns success after that one
\* model call and the transcript grows from 2 messages (system, user) to 3 by
\* exactly one assistant message holding the response text.
C14_TerminalResponseAppended ==
    [][\A c \in Callers :
         (/\ loc[c].pc = "after"
          /\ loc[c].iteration = 0
          /\ loc[c].iterCalls = 1
          /\ loc[c].err = ""
          /\ Len(loc[c].resp.toolCalls) = 0
          /\ loc[c].resp.content # ""
          /\ Len(Transcript(c)) = 2
          /\ loc'[c] # loc[c])
         => /\ loc'[c].pc = "idle"
            /\ loc'[c].ret = Nil
            /\ loc'[c].iterCalls = 1
            /\ Transcript(c)' =
                 Append(Transcript(c), Msg("assistant", loc[c].resp.content, <<>>, ""))]_vars

\* the roles of the messages of a transcript, in order
Roles(transcript) == [i \in 1..Len(transcript) |-> transcript[i].role]

\* C15 as stated: a response with k >= 1 tool calls adds one assistant
\* message carrying the k calls; the calls are then dispatched one at a time in
\* the order issued, each adding one tool message with that call's id before
\* the next is dispatched; so one read_file call followed by a tool-free answer
\* leaves [system, user, assistant(toolCall), tool(result), assistant(final)].
C15_ToolExchange ==
    [][\A c \in Callers :
         LET resp == loc[c].resp
             k == Len(resp.toolCalls)
             before == Transcript(c)
             after == Transcript(c)'
         IN  /\ (loc[c].pc = "after" /\ loc[c].err = "" /\ k >= 1 /\ loc'[c] # loc[c])
                => /\ loc'[c].pc = "tools"
                   /\ loc'[c].tcIdx = 1
                   /\ Len(after) = Len(before) + 1
                   /\ after[Len(after)].role = "assistant"
                   /\ Len(after[Len(after)].toolCalls) = k
                   /\ \A i \in 1..k : after[Len(after)].toolCalls[i].id = resp.toolCalls[i].id
             /\ (loc[c].pc = "tools" /\ loc'[c] # loc[c])
                => /\ Len(after) >= Len(before) + 1
                   /\ SubSeq(after, 1, Len(before)) = before
                   /\ after[Len(before) + 1].role = "tool"
                   /\ after[Len(before) + 1].toolCallId = resp.toolCalls[loc[c].tcIdx].id
                   /\ IF loc[c].tcIdx < k
                      THEN /\ loc'[c].pc = "tools"
                           /\ loc'[c].tcIdx = loc[c].tcIdx + 1
                           /\ Len(after) = Len(before) + 1
                      ELSE loc'[c].pc = "loop"
             /\ (/\ loc[c].pc = "after" /\ loc[c].err = "" /\ k = 0 /\ resp.content # ""
                 /\ loc[c].iteration = 1
                 /\ Len(loc[c].sigs) = 1
                 /\ loc[c].sigs[1].name = "read_file"
                 /\ Roles(before) = <<"system", "user", "assistant", "tool">>
                 /\ loc'[c] # loc[c])
                => /\ Roles(after) = <<"system", "user", "assistant", "tool", "assistant">>
                   /\ after[5].content = resp.content]_vars

\* the index of the nearest assistant message before position i (0 if none)
PrecedingAssistant(transcript, i) ==
    LET js == {j \in 1..(i - 1) : transcript[j].role = "assistant"}
    IN  IF js = {} THEN 0 ELSE CHOOSE j \in js : \A m \in js : m <= j

\* the index of the first assistant or user message after position j
\* (Len + 1 if none has appeared yet)
NextTurn(transcript, j) ==
    LET ns == {n \in (j + 1)..Len(transcript) : transcript[n].role \in {"assistant", "user"}}
    IN  IF ns = {} THEN Len(transcript) + 1 ELSE CHOOSE n \in ns : \A m \in ns : n <= m

\* every tool message answers a call of the nearest preceding assistant
\* message, and once the next assistant or user message has appeared every
\* call of an assistant message has exactly one answer in between
WellLinked(transcript) ==
    /\ \A i \in 1..Len(transcript) :
          transcript[i].role = "tool" =>
             LET j == PrecedingAssistant(transcript, i)
             IN  /\ j > 0
                 /\ \E n \in 1..Len(transcript[j].toolCalls) :
                       transcript[j].toolCalls[n].id = transcript[i].toolCallId
    /\ \A j \in 1..Len(transcript) :
          (transcript[j].role = "assistant" /\ NextTurn(transcript, j) <= Len(transcript)) =>
             \A n \in 1..Len(transcript[j].toolCalls) :
                Cardinality({i \in (j + 1)..(NextTurn(transcript, j) - 1) :
                               /\ transcript[i].role = "tool"
                               /\ transcript[i].toolCallId = transcript[j].toolCalls[n].id}) = 1

\* C16 as stated: in every transcript Run/RunContinue can reach, each tool
\* message's toolCallId is the id of a call of the nearest preceding assistant
\* message, and every call of an assistant message is answered by exactly one
\* tool message before the next assistant or user message.
C16_TranscriptLinked ==
    /\ WellLinked(messages)
    /\ \A c \in Callers : WellLinked(loc[c].messages)

\* name is a registered alias (aliases are matched case-insensitively)
IsAlias(r, name) == \E n \in 1..Len(r.aliases) : r.aliases[n][1] = ToLower(name)

\* the tool-call names recorded in the assistant messages of a transcript
RecordedNames(transcript) ==
    UNION {{transcript[i].toolCalls[n].name : n \in 1..Len(transcript[i].toolCalls)} :
              i \in {m \in 1..Len(transcript) : transcript[m].role = "assistant"}}

\* C17: a tool invoked under a registered alias is recorded in the assistant
\* message under its canonical name ("Bash" and "bash" as "exec", "Read" as
\* "read_file"), no assistant message of any transcript carries an alias, and
\* the registry resolves the same whether the aliases were registered before
\* or after the tools.
C17_CanonicalRecorded ==
    /\ [](/\ \A name \in RecordedNames(messages) : ~IsAlias(registry, name)
          /\ \A c \in Callers :
                \A name \in RecordedNames(loc[c].messages) : ~IsAlias(registry, name)
          /\ \A r \in RegistryOrders :
                /\ ResolveName(r, "Bash") = "exec"
                /\ ResolveName(r, "bash") = "exec"
                /\ ResolveName(r, "Read") = "read_file"
                /\ ResolveName(r, "exec") = "exec")
    /\ [][\A c \in Callers :
            (/\ loc[c].pc = "after" /\ loc[c].err = ""
             /\ Len(loc[c].resp.toolCalls) > 0
             /\ loc'[c] # loc[c])
            => LET recorded == Transcript(c)'[Len(Transcript(c)')]
               IN  \A n \in 1..Len(loc[c].resp.toolCalls) :
                      /\ loc[c].resp.toolCalls[n].name \in {"Bash", "bash"}
                            => recorded.toolCalls[n].name = "exec"
                      /\ loc[c].resp.toolCalls[n].name = "Read"
                            => recorded.toolCalls[n].name = "read_file"
                      /\ recorded.toolCalls[n].arguments = loc[c].resp.toolCalls[n].arguments
                      /\ recorded.toolCalls[n].id = loc[c].resp.toolCalls[n].id]_vars

\* C17 witness: the model has called "Bash" and the assistant message just
\* recorded carries "exec"
C17_Witness ==
    \E c \in Callers :
        /\ loc[c].pc = "tools"
        /\ loc[c].resp.toolCalls[1].name = "Bash"
        /\ Len(Transcript(c)) > 0
        /\ Transcript(c)[Len(Transcript(c))].role = "assistant"
        /\ Transcript(c)[Len(Transcript(c))].toolCalls[1].name = "exec"

\* s begins with prefix
HasPrefix(s, prefix) == Len(s) >= Len(prefix) /\ SubSeq(s, 1, Len(prefix)) = prefix

\* C18: a dispatched tool that returns an error (a failing command, a tool
\* that is not registered) gets the tool message "Error: " followed by the
\* error message; the remaining calls of the iteration are still dispatched and
\* after the last one the call goes on to the next iteration, it does not
\* return.
C18_ToolErrorNotFatal ==
    [][\A c \in Callers :
         (loc[c].pc = "tools" /\ loc'[c] # loc[c]) =>
            LET tc == loc[c].resp.toolCalls[loc[c].tcIdx]
                tm == Transcript(c)'[Len(Transcript(c)) + 1]
            IN  /\ tm.role = "tool"
                /\ tm.toolCallId = tc.id
                /\ \E availableTools \in List(registry) :
                      LET failed == Execute(registry, tc.name, tc.arguments, availableTools)
                      IN  ~failed.ok => tm.content = "Error: " \o failed.text
                /\ (tc.name = "exec" /\ tc.arguments = ArgsFalse)
                      => tm.content = "Error: command failed: exit status 1"
                /\ tc.name = "search"
                      => HasPrefix(tm.content, "Error: tool not found: search")
                /\ loc'[c].ret = NoRet
                /\ IF loc[c].tcIdx < Len(loc[c].resp.toolCalls)
                   THEN loc'[c].pc = "tools" /\ loc'[c].tcIdx = loc[c].tcIdx + 1
                   ELSE loc'[c].pc = "loop" /\ loc'[c].iteration = loc[c].iteration + 1]_vars

\* C18 witness: after an iteration in which a command failed and a tool was
\* not found, the next model call is on its way
C18_Witness ==
    \E c \in Callers :
        /\ loc[c].pc = "inflight"
        /\ loc[c].iteration >= 1
        /\ \E i \in 1..Len(Transcript(c)) :
              /\ Transcript(c)[i].role = "tool"
              /\ Transcript(c)[i].content = "Error: command failed: exit status 1"
              /\ i < Len(Transcript(c))
              /\ Transcript(c)[i + 1].role = "tool"
              /\ HasPrefix(Transcript(c)[i + 1].content, "Error: tool not found: search")

\* earlier is a prefix of later
IsPrefix(earlier, later) ==
    Len(earlier) <= Len(later) /\ SubSeq(later, 1, Len(earlier)) = earlier

\* this step is ClearHistory, or the start of a new process by resume
HistoryDropped ==
    \/ messages # <<>> /\ messages' = <<>> /\ loc' = loc
    \/ \E c \in Callers : CallStarts(c) /\ loc'[c].entry = "resume"

\* C19: RunContinue on a non-empty transcript appends exactly one user message
\* holding the prompt and leaves the earlier messages and the tool definitions
\* as they are; whatever the calls do and however they end, as long as the
\* history is not cleared the earlier transcript is a prefix of the later one.
C19_HistoryGrows ==
    /\ [][\A c \in Callers :
            (CallStarts(c) /\ loc'[c].entry = "RunContinue" /\ messages # <<>>)
            => /\ messages' = Append(messages, Msg("user", loc'[c].prompt, <<>>, ""))
               /\ toolDefs' = toolDefs]_vars
    /\ [][~HistoryDropped => IsPrefix(messages, messages')]_vars

\* C19 witness: a second RunContinue has just been accepted on a transcript
\* that keeps the system message and the first exchange
C19_Witness ==
    \E c \in Callers :
        /\ loc[c].entry = "RunContinue"
        /\ loc[c].pc = "loop"
        /\ loc[c].iteration = 0
        /\ Len(messages) >= 4
        /\ messages[1].role = "system"
        /\ messages[2].role = "user"
        /\ messages[Len(messages)] = Msg("user", loc[c].prompt, <<>>, "")

\* C20 as stated: ClearHistory leaves the transcript empty, it stays empty
\* until the next RunContinue, and that RunContinue(P) rebuilds it as exactly
\* [system, user(P)] and rebuilds the tool definitions before its first model
\* call.
C20_ClearThenRebuild ==
    /\ [][(messages' # messages /\ loc' = loc) => messages' = <<>>]_vars
    /\ [][(messages = <<>> /\ messages' # <<>>)
          => \E c \in Callers :
                /\ CallStarts(c)
                /\ loc'[c].entry = "RunContinue"
                /\ loc'[c].iterCalls = 0
                /\ Roles(messages') = <<"system", "user">>
                /\ messages'[2].content = loc'[c].prompt
                /\ toolDefs' = registry.tools]_vars

\* C21: the transcript of a Loop is never mutated concurrently: while a call of
\* Run / RunContinue is in progress, a step that is not a step of that call
\* (in particular ClearHistory from another goroutine) leaves the transcript
\* the call reads and appends to unchanged.
C21_ExclusiveTranscript ==
    [][\A c \in Callers :
          (Active(c) /\ loc'[c] = loc[c]) => Transcript(c)' = Transcript(c)]_vars

\* the canonical name the alias table gives for name, compared without case;
\* name itself when the table has no entry for it
AliasTarget(r, name) ==
    IF \E n \in 1..Len(r.aliases) : r.aliases[n][1] = ToLower(name)
    THEN r.aliases[CHOOSE n \in 1..Len(r.aliases) : r.aliases[n][1] = ToLower(name)][2]
    ELSE name

\* C22: Registry.Execute resolves the name through the alias table, without
\* regard to case, before the lookup.  If the resolved name is not registered
\* the call returns the error "tool not found: <name>. Available tools: <the
\* registered names>" and runs no tool; otherwise it runs exactly the tool
\* registered under the resolved name and returns what that tool returns.
C22_ExecuteResolves ==
    [][executed' # executed =>
         LET call == executed'[Len(executed')]
             resolved == AliasTarget(registry, call.name)
         IN  IF resolved \notin registry.tools
             THEN /\ ~call.outcome.ok
                  /\ call.outcome.tool = ""
                  /\ HasPrefix(call.outcome.text,
                               "tool not found: " \o call.name \o ". Available tools: ")
                  /\ \A t \in registry.tools : Contains(call.outcome.text, t)
             ELSE /\ call.outcome.tool = resolved
                  /\ call.outcome.ok = ToolRun(resolved, call.args).ok
                  /\ call.outcome.text = ToolRun(resolved, call.args).text]_vars

\* C22 witness: "BASH" has run the tool behind the alias registered as "Bash",
\* and a call of an unknown name has come back with both registered names
C22_Witness ==
    /\ registry.tools = {"exec", "read_file"}
    /\ \E i \in 1..Len(executed) :
          executed[i].name = "BASH" /\ executed[i].outcome.tool = "exec"
    /\ \E i \in 1..Len(executed) :
          /\ executed[i].name = "search"
          /\ executed[i].outcome.text
                 = "tool not found: search. Available tools: read_file, exec"

\* the elements of a set of numbers in ascending order
RECURSIVE Ascending(_)
Ascending(S) ==
    IF S = {} THEN <<>>
    ELSE LET least == CHOOSE x \in S : \A y \in S : x <= y
         IN  <<least>> \o Ascending(S \ {least})

\* the partial-JSON fragments of block i on the wire from position n on, concatenated
RECURSIVE FragmentsFrom(_, _)
FragmentsFrom(i, n) ==
    IF n > Len(wire) THEN ""
    ELSE (IF wire[n].event = "content_block_delta" /\ wire[n].index = i
             /\ wire[n].deltaType = "input_json_delta"
          THEN wire[n].partialJSON ELSE "") \o FragmentsFrom(i, n + 1)

\* the start event of block i
StartOf(i) == wire[CHOOSE n \in Events("content_block_start", i) : TRUE]

\* the indices of the tool_use blocks on the wire
BlocksOnWire == {i \in 0..(MaxBlocks - 1) : Started(i)}

\* the decode has returned a Response for a complete stream without error events
DecodedWhole ==
    returned.done /\ ~returned.isNil /\ Seen("message_stop") /\ ~Seen("error")

\* C23: for a stream of message_start, tool_use blocks (start, fragments,
\* stop) with text deltas between them, and message_stop, the tool calls of the
\* decoded Response are in ascending order of block index, and each has the id
\* and the name of its block's start event and as arguments the JSON parse of
\* the concatenation of the fragments of that block alone.
C23_ToolCallsByIndex ==
    DecodedWhole =>
        LET order == Ascending(BlocksOnWire)
            calls == returned.response.toolCalls
        IN  /\ Len(calls) = Len(order)
            /\ \A k \in 1..Len(order) :
                  /\ calls[k].id = StartOf(order[k]).id
                  /\ calls[k].name = StartOf(order[k]).name
                  /\ calls[k].arguments = Unmarshal(FragmentsFrom(order[k], 1)).value

\* the type of the StreamEvent a wire event is turned into, "" for none
Announced(evt) ==
    IF ~evt.valid THEN ""
    ELSE CASE evt.event = "content_block_start" /\ evt.blockType = "tool_use" -> "tool_start"
           [] evt.event = "content_block_delta" /\ evt.deltaType = "text_delta" -> "text"
           [] evt.event = "content_block_delta" /\ evt.deltaType = "input_json_delta"
                 -> "tool_delta"
           [] evt.event = "content_block_stop" -> "tool_end"
           [] evt.event = "message_stop" -> "done"
           [] evt.event = "error" -> "error"
           [] OTHER -> ""

\* the texts of the text events among events, concatenated in order
RECURSIVE TextOf(_)
TextOf(events) ==
    IF events = <<>> THEN ""
    ELSE (IF Head(events).Type = "text" THEN Head(events).Text ELSE "") \o TextOf(Tail(events))

\* C24: the decoder hands the StreamEvents to the callback in the order of the
\* wire events they come from, every one of them before the decode returns
\* (nothing is delivered after the return), and the text of the returned
\* Response is the concatenation, in arrival order, of exactly the text
\* fragments delivered as text events.
C24_DeliveredInWireOrder ==
    /\ [](callback =>
            LET kinds == [n \in 1..Len(wire) |-> Announced(wire[n])]
                due == SelectSeq(kinds, LAMBDA k : k # "")
            IN  /\ [n \in 1..Len(delivered) |-> delivered[n].Type] = due
                /\ (returned.done /\ ~returned.isNil)
                      => returned.response.content = TextOf(delivered))
    /\ [][/\ returned.done => delivered' = delivered
          /\ delivered' # delivered =>
                /\ Len(wire') = Len(wire) + 1
                /\ delivered' = Append(delivered, delivered'[Len(delivered')])
                /\ delivered'[Len(delivered')].Type = Announced(wire'[Len(wire')])
                /\ delivered'[Len(delivered')].Text = wire'[Len(wire')].text
                /\ delivered'[Len(delivered')].Input = wire'[Len(wire')].partialJSON]_vars

\* C24 witness: a Response has been returned after two text fragments with a
\* tool block between them, all of them delivered
C24_Witness ==
    /\ callback
    /\ returned.done /\ ~returned.isNil
    /\ returned.response.content = "Hello"
    /\ Len(returned.response.toolCalls) >= 1
    /\ \E i, j, k \in 1..Len(delivered) :
          /\ i < j /\ j < k
          /\ delivered[i].Type = "text" /\ delivered[i].Text = "Hel"
          /\ delivered[j].Type = "tool_end"
          /\ delivered[k].Type = "text" /\ delivered[k].Text = "lo"

\* C25: when an error event arrives the decoder delivers one error
\* StreamEvent and returns an error at once, with no Response; after the
\* return no further wire event is read or delivered.
C25_ErrorEventAborts ==
    [][/\ (Len(wire') = Len(wire) + 1 /\ wire'[Len(wire')].event = "error") =>
             /\ returned'.done
             /\ returned'.isNil
             /\ returned'.err # ""
             /\ callback =>
                   /\ Len(delivered') = Len(delivered) + 1
                   /\ delivered'[Len(delivered')].Type = "error"
       /\ returned.done => (wire' = wire /\ delivered' = delivered)]_vars

\* the content blocks of the reply the wire carries from position n on: a text
\* block per text delta, a tool_use block per finished block, its input the
\* JSON value its fragments spell
RECURSIVE BlocksFrom(_)
BlocksFrom(n) ==
    IF n > Len(wire) THEN <<>>
    ELSE (CASE wire[n].deltaType = "text_delta" -> <<TextBlock(wire[n].text)>>
            [] wire[n].event = "content_block_stop" ->
                  <<ToolUseBlock(StartOf(wire[n].index).id, StartOf(wire[n].index).name,
                                 Unmarshal(FragmentsFrom(wire[n].index, 1)).value)>>
            [] OTHER -> <<>>) \o BlocksFrom(n + 1)

\* the same reply as the body of a call that is not streamed
ReplyOnWire == AnthropicResponse(BlocksFrom(1), InputTokens, OutputTokens)

\* the stream is the whole reply as the server streams it: the blocks in index
\* order, each with all its fragments, the final counts, no error event
FaithfulStream ==
    /\ Seen("message_stop")
    /\ ~Seen("error")
    /\ \A i \in BlocksOnWire :
          /\ Sent(i) = Len(Fragments(i))
          /\ Unmarshal(FragmentsFrom(i, 1)).ok
          /\ \A j \in BlocksOnWire :
                i < j => \A n \in Events("content_block_start", i),
                            m \in Events("content_block_start", j) : n < m

\* C26: for the same reply (same text blocks, same tool_use blocks in the same
\* order, same token counts) the streaming path returns the Response the
\* synchronous path returns: the same text, the same tool calls in the same
\* order with the same names, structured arguments and raw argument JSON, and
\* the same usage.
C26_StreamEqualsSync ==
    (returned.done /\ ~returned.isNil /\ FaithfulStream)
        => returned.response = Chat(ReplyOnWire)

\* the tool iterations of call c that end with its latest one and have the
\* same first tool call as it
RECURSIVE Streak(_, _)
Streak(sigs, i) ==
    IF i <= 1 \/ sigs[i - 1] # sigs[i] THEN 1 ELSE 1 + Streak(sigs, i - 1)

\* C27: the repeat detection (last signature, repeat count) starts empty in
\* every call of Run / RunContinue and is carried from iteration to iteration
\* within the call: it changes only at the end of a tool iteration, and what it
\* holds and the corrective messages it injects depend on the first tool calls
\* of this call alone, never on those of an earlier call.
C27_BreakerPerCall ==
    /\ [](\A c \in Callers :
            Active(c) =>
               /\ loc[c].hints = HintsOwed(loc[c].sigs, 1, 0)
               /\ loc[c].repeatCount
                     = IF loc[c].sigs = <<>> \/ loc[c].lastToolSig = "" THEN 0
                       ELSE (Streak(loc[c].sigs, Len(loc[c].sigs)) - 1) % (maxRepeats + 1)
               /\ loc[c].sigs = <<>> => loc[c].lastToolSig = "")
    /\ [][\A c \in Callers :
            /\ CallStarts(c) =>
                  loc'[c].lastToolSig = "" /\ loc'[c].repeatCount = 0 /\ loc'[c].sigs = <<>>
            /\ (Active(c) /\ loc'[c].pc # "idle" /\ loc'[c].sigs = loc[c].sigs) =>
                  /\ loc'[c].lastToolSig = loc[c].lastToolSig
                  /\ loc'[c].repeatCount = loc[c].repeatCount]_vars

\* C27 witness: a RunContinue whose first iteration makes the tool call that
\* the two iterations of the call before it made, and no corrective message
\* has been injected
C27_Witness ==
    \E c \in Callers :
        /\ loc[c].mode = "continue"
        /\ loc[c].pc = "loop"
        /\ Len(loc[c].sigs) = 1
        /\ loc[c].repeatCount = 0
        /\ HintsIn(messages) = 0
        /\ \E i, j, u, k \in 1..Len(messages) :
              /\ i < j /\ j < u /\ u < k
              /\ messages[u].role = "user"
              /\ \A n \in {i, j, k} :
                    /\ messages[n].role = "assistant"
                    /\ Len(messages[n].toolCalls) = 1
                    /\ messages[n].toolCalls[1].name = "exec"
                    /\ messages[n].toolCalls[1].arguments = ArgsLs

\* C28: with boundary scanning enabled, every response whose text contains a
\* boundary substring gets one daily note by the time the loop is done with it
\* (after its last tool call, or when it ends the call), in Run and in
\* RunContinue; the note changes nothing else.
C28_BoundaryNotified ==
    [][\A c \in Callers :
         LET handled == \/ /\ loc[c].pc = "after"
                           /\ loc[c].err = ""
                           /\ Len(loc[c].resp.toolCalls) = 0
                           /\ loc'[c] # loc[c]
                        \/ loc[c].pc = "tools" /\ loc'[c].pc = "loop"
         IN  (handled /\ cfg.StrategicCompact /\ BoundaryFound(loc[c].resp.content))
                => loc'[c].notes = loc[c].notes + 1]_vars

\* C29: when the content_block_stop of a tool_use block arrives and the
\* fragments accumulated for the block are not valid JSON, the decoder still
\* appends a ToolCall for the block, with the block's id and name and empty
\* arguments, delivers tool_end, and goes on decoding: the decode does not
\* return at this event, and the broken block does not make it fail later.
C29_BrokenInputTolerated ==
    /\ [][(/\ Len(wire') = Len(wire) + 1
            /\ wire'[Len(wire')].event = "content_block_stop"
            /\ ~Unmarshal(FragmentsFrom(wire'[Len(wire')].index, 1)).ok) =>
              LET start == StartOf(wire'[Len(wire')].index)
                  call == result'.toolCalls[Len(result'.toolCalls)]
              IN  /\ Len(result'.toolCalls) = Len(result.toolCalls) + 1
                  /\ call.id = start.id
                  /\ call.name = start.name
                  /\ call.arguments = <<>>
                  /\ callback =>
                        /\ Len(delivered') = Len(delivered) + 1
                        /\ delivered'[Len(delivered')].Type = "tool_end"
                        /\ delivered'[Len(delivered')].ToolID = start.id
                  /\ ~returned'.done]_vars
    /\ []((returned.done /\ returned.err # "") =>
             \/ wire[Len(wire)].event = "error" /\ wire[Len(wire)].valid
             \/ returned.err = "SSE stream read error: unexpected EOF")

\* C29 witness: a Response has been returned whose first tool call comes from
\* a block cut off after its first fragment and whose second tool call was
\* decoded after it
C29_Witness ==
    /\ returned.done /\ ~returned.isNil
    /\ Len(returned.response.toolCalls) = 2
    /\ returned.response.toolCalls[1].function.arguments = "{\"command\":"
    /\ returned.response.toolCalls[1].arguments = <<>>
    /\ returned.response.toolCalls[2].arguments = [path |-> "a.go"]

\* the messages of a transcript that are not system messages, in order
Turnwise(transcript) == SelectSeq(transcript, LAMBDA m : m.role # "system")

\* the tool_use blocks of an encoded message, in order
ToolUses(a) == SelectSeq(a.blocks, LAMBDA b : b.type = "tool_use")

\* the ids of the tool calls announced before position k of the transcript
\* and before position k of the encoding
CalledBefore(turns, k) ==
    {turns[j].toolCalls[n].id : <<j, n>> \in
        {x \in (1..(k - 1)) \X (1..MaxToolCalls) :
            turns[x[1]].role = "assistant" /\ x[2] <= Len(turns[x[1]].toolCalls)}}
UsedBefore(out, k) ==
    {ToolUses(out[x[1]])[x[2]].id : x \in
        {y \in (1..(k - 1)) \X (1..MaxToolCalls) : y[2] <= Len(ToolUses(out[y[1]]))}}

\* C30: at every point of the encoding of a transcript, a system message
\* read so far is in the system field and not in the message array; the
\* array holds one message per other message read, in the transcript's
\* order: a tool message as a user message of one tool_result block whose
\* id is the message's ToolCallID, an assistant message with tool calls as
\* an assistant message holding one tool_use block per call, in order, with
\* the call's id and name (and its text, if any, as a text block), any other
\* message by role and text; so a result block answers an earlier tool_use
\* block of the array exactly when its message answers an earlier call.
C30_TranscriptEncoded ==
    LET read == SubSeq(request.messages, 1, request.next - 1)
        turns == Turnwise(read)
        out == request.anthropicMsgs
    IN  /\ \A i \in 1..Len(read) :
              read[i].role = "system" => request.systemPrompt = read[i].content
        /\ \A k \in 1..Len(out) : out[k].role # "system"
        /\ Len(out) = Len(turns)
        /\ \A k \in 1..Len(out) :
              LET m == turns[k]
                  a == out[k]
              IN  CASE m.role = "tool" ->
                         /\ a.role = "user"
                         /\ Len(a.blocks) = 1
                         /\ a.blocks[1].type = "tool_result"
                         /\ a.blocks[1].toolUseId = m.toolCallId
                         /\ a.blocks[1].content = m.content
                         /\ (m.toolCallId \in CalledBefore(turns, k))
                               <=> (a.blocks[1].toolUseId \in UsedBefore(out, k))
                    [] m.role = "assistant" /\ Len(m.toolCalls) > 0 ->
                         /\ a.role = "assistant"
                         /\ Len(ToolUses(a)) = Len(m.toolCalls)
                         /\ \A n \in 1..Len(m.toolCalls) :
                               /\ ToolUses(a)[n].id = m.toolCalls[n].id
                               /\ ToolUses(a)[n].name = m.toolCalls[n].name
                         /\ Len(a.blocks) = Len(m.toolCalls) + (IF m.content = "" THEN 0 ELSE 1)
                         /\ m.content # "" => a.blocks[1] = TextBlock(m.content)
                    [] OTHER ->
                         /\ a.role = m.role
                         /\ a.text = m.content
                         /\ a.blocks = <<>>

\* C30 witness: a transcript has been encoded to the end whose system prompt
\* is in the system field and in which an assistant message with two calls is
\* followed by their two results, after an assistant message with text and a call
C30_Witness ==
    /\ ~Encoding
    /\ request.systemPrompt = SystemPrompt
    /\ \E j, k \in 1..Len(request.anthropicMsgs) :
          /\ j < k
          /\ k + 2 <= Len(request.anthropicMsgs)
          /\ Len(request.anthropicMsgs[j].blocks) = 2
          /\ request.anthropicMsgs[j].blocks[1].type = "text"
          /\ Len(ToolUses(request.anthropicMsgs[k])) = 2
          /\ request.anthropicMsgs[k + 1].blocks[1].toolUseId = "toolu_1"
          /\ request.anthropicMsgs[k + 2].blocks[1].toolUseId = "toolu_2"

\* C31: a chat call of either adapter that received a status outside 200..299
\* returns an error and no Response: the vendor's error type and message when
\* the body carries an error object, otherwise an error that names the status
\* code.
C31_StatusErrorReturned ==
    (exchange.adapter # "" /\ exchange.status \notin 200..299) =>
        /\ exchange.done
        /\ exchange.isNil
        /\ exchange.err # ""
        /\ IF exchange.body.valid /\ exchange.body.error.present
           THEN /\ Contains(exchange.err, "API error: ")
                /\ Contains(exchange.err,
                            exchange.body.error.type \o " - " \o exchange.body.error.message)
           ELSE Contains(exchange.err, ToString(exchange.status))

\* C32: a ChatStream call that received HTTP 429 returns an error that the
\* retry test of the model-call loop accepts as a rate limit, so the loop waits
\* and retries it, and that the overflow test does not accept.
C32_TooManyRequestsRetried ==
    (exchange.adapter = "anthropic-stream" /\ exchange.status = 429) =>
        /\ exchange.done
        /\ exchange.err # ""
        /\ IsRateLimitError(exchange.err)
        /\ ~detectContextOverflow(exchange.err)

\* C33: a call whose model request was cut off by the cancellation (ChatStream
\* came back with the transport's "context canceled" failure) returns the
\* cancellation outcome itself, the value a checkpoint returns and callers
\* compare against, and not a wrapped "LLM call failed" error.
C33_CancelInFlightIsCancel ==
    \A c \in Callers :
        (loc[c].pc = "idle" /\ loc[c].ret # NoRet /\ loc[c].err = ErrSendCanceled)
            => loc[c].ret = ErrCanceled

\* C34: no tool call is dispatched once the context is cancelled or the stop
\* request of the run is made: a call that is working through the tool calls
\* of a response executes the next one only while neither signal has fired.
C34_NoDispatchAfterAbort ==
    [][\A c \in Callers :
         (loc[c].pc = "tools" /\ loc'[c] # loc[c]) => (~cancelled /\ ~stopClosed)]_vars

\* C35: Stop can be called any number of times at any moment without crashing
\* the process: no Stop, whether it repeats an earlier Stop of the same run or
\* races with the end of a run or the start of the next, closes a stop channel
\* that is already closed.
C35_StopNeverPanics == ~panicked

\* C36: a run whose stop request was made while it was in progress ends with a
\* non-error outcome (nil) and the process alive; a run that starts has a stop
\* channel of its own, open, whatever Stop calls were made before it started.
C36_StopEndsRunQuietly ==
    /\ [][\A c \in Callers :
            (Active(c) /\ stopClosed /\ ~Active(c)') => loc'[c].ret = Nil]_vars
    /\ [][\A c \in Callers : CallStarts(c) => ~stopClosed']_vars
    /\ [][(\E c \in Callers : Active(c)) /\ stopClosed => ~panicked']_vars

\* C37: whenever no Run/RunContinue call is in progress the running flag is
\* false, whichever way the last call ended; so a call made while none is in
\* progress is never turned away as 'already running'.
C37_GuardReleased ==
    /\ []((\A c \in Callers : ~Active(c)) => ~running)
    /\ [][((\A d \in Callers : ~Active(d)) /\ loc' # loc)
            => /\ \E c \in Callers : CallStarts(c)
               /\ running'
               /\ \A c \in Callers :
                     loc'[c].ret \notin {ErrRunAlreadyRunning, ErrContinueAlreadyRunning}]_vars

\* C37 witness: a call is in progress that was accepted after an earlier call
\* on the same Loop had left through the overflow recovery, whose trigger is
\* still pending
C37_Witness ==
    /\ Active("g1")
    /\ running
    /\ runs = 2
    /\ loc["g2"] = IdleLoc
    /\ store.trigger.pending

\* C38: when the attempts of an iteration are over, the iteration has made
\* strictly fewer backoff waits than model-call attempts: every wait that ran
\* to its end was followed by another attempt, and none follows the last one.
C38_NoWaitAfterLastAttempt ==
    \A c \in Callers :
        loc[c].pc = "after" => Len(loc[c].waits) < loc[c].iterCalls

\* the ToolCalls of the Response being built, and the tool_end events
\* delivered, that belong to the block of index i
CallsOf(i) == {n \in 1..Len(result.toolCalls) : result.toolCalls[n].id = BlockId(i)}
EndsOf(i) ==
    {n \in 1..Len(delivered) : delivered[n].Type = "tool_end" /\ delivered[n].ToolID = BlockId(i)}

\* C39: a tool_use block opened on the stream contributes at most one
\* ToolCall to the Response and at most one tool_end to the callback, however
\* often its content_block_stop arrives, and none while its stop has not arrived.
C39_OneToolCallPerBlock ==
    \A i \in 0..(MaxBlocks - 1) :
        /\ Cardinality(CallsOf(i)) <= 1
        /\ Cardinality(EndsOf(i)) <= 1
        /\ ~Stopped(i) => (CallsOf(i) = {} /\ EndsOf(i) = {})

\* the runLoop goroutines that are waiting on a stop channel nobody has closed
Surviving == {l \in Loops : service.loops[l].pc = "select"
                             /\ service.loops[l].waitsOn \notin service.closed}

\* C40: at most one heartbeat loop is alive at a time: a loop whose Service
\* has been stopped since it started (its own stop channel is closed) never
\* goes back to waiting on an open channel, so it ends at its next select, and
\* no two loops wait for ticks on open channels together.
C40_OneHeartbeatLoop ==
    /\ \A l \in Loops : (l \in service.closed) => l \notin Surviving
    /\ Cardinality(Surviving) <= 1

====
